---- MODULE Spec2Model ----
(***************************************************************************)
(* DDRP (Deterministic Document Review Protocol) v0.2: the transaction     *)
(* ledger (src/src/transaction_log_v0_2.ts, lines 1-316), the operator     *)
(* detector (same file, lines 318-853) and the obligation engine           *)
(* (src/unnamed/part_007), PDF ingestion (src/unnamed/part_008) and the    *)
(* browser page (src/src/pdf_canonicalizer_v0_2.ts, src/unnamed/part_011), *)
(* as state machines.                                                      *)
(*                                                                         *)
(* In the ledger, strings are modelled by natural numbers (one number per  *)
(* distinct string value).  Strings whose order or characters matter (file *)
(* names, pattern ids, scanned texts) are modelled by their sequence of    *)
(* UTF-16 code units.                                                      *)
(***************************************************************************)
EXTENDS Integers, Sequences, FiniteSets, TLC

VARIABLES
    dir,          \* the ledger directory: the files in it, in creation order
    dirExists,    \* fs.existsSync(transactionsDir)
    pending,      \* per writer: records returned by createTransactionRecord, not yet written
    serial,       \* history: no record was ever created while another one was pending
    writeLog,     \* history: file name and record of every completed write, in order
    appended,     \* history: number of writeTransactionRecord calls since the empty directory
    tampered,     \* history: the out-of-band changes made to stored files, in order
    verification, \* outcome of the last verifyTransactionChain call
    seqRead,      \* per writer: the seqNum a writeTransactionRecord call in progress has read
    lastIndex,    \* per pattern object: the lastIndex of its global RegExp
    config,       \* per detector: this.config.patterns, as indexes of pattern objects
    collation,    \* what String.prototype.localeCompare of the runtime compares by
    text,         \* the text whose detection results are compared
    detected,     \* the last detect(text) + instantiateObligations call and its result
    baseline,     \* history: an earlier such call and its result
    matchList,    \* a match list a caller hands to instantiateObligations
    obligations,  \* the result of the last instantiateObligations(matchList) call
    pdf,          \* the PDF file handed to ingestPDF, as pdfjs-dist reads it
    ingested,     \* the outcome of the last ingestPDF(pdf) call
    currentRunId,             \* the page: null (0) or the number of the run
    currentDetection,         \* the page: null or the result of detectOperators
    currentObligations,       \* the page: null or the result of instantiateObligations
    currentPDFResult,         \* the page: null or the result of ingestPDF
    currentCanonResult,       \* the page: null or the result of canonicalizeText
    currentTransactionRecord, \* the page: null or the record of the last review
    inputSource,              \* the page: 'text' or 'pdf'
    lastTransactionHash,      \* the page: the hash the next record links to
    documentInput,            \* the page: documentInput.value
    inputDisabled,            \* the page: documentInput, loadFileBtn, loadPdfBtn are disabled
    runReviewDisabled,        \* the page: runReviewBtn.disabled
    exportHidden,             \* the page: the export section is hidden
    generateTransaction,      \* the page: generateTransactionCheckbox.checked
    tasks,                    \* the page: the handlers suspended at an await or waiting for onload
    alerted,                  \* history: the last alert shown
    issued,                   \* history: the records reviews stored, with run and review number
    bundle,                   \* history: the last bundle handed to downloadJson
    events,                   \* history: the number of user events so far
    reviewsStarted            \* history: the number of reviews started in the run

ledgerVars == <<dir, dirExists, pending, serial, writeLog, appended, tampered,
                verification, seqRead>>
detectorVars == <<lastIndex, config, collation, text, detected, baseline>>
engineVars == <<matchList, obligations>>
ingestVars == <<pdf, ingested>>
pageVars == <<currentRunId, currentDetection, currentObligations, currentPDFResult,
              currentCanonResult, currentTransactionRecord, inputSource,
              lastTransactionHash, documentInput, inputDisabled, runReviewDisabled,
              exportHidden, generateTransaction, tasks, alerted, issued, bundle, events,
              reviewsStarted>>
vars == <<ledgerVars, detectorVars, engineVars, ingestVars, pageVars>>

----------------------------------------------------------------------------
(* Bounds of the model *)

MaxAppends == 3     \* writeTransactionRecord calls per run
MaxPending == 2     \* records one writer may hold created and not yet written
MaxCorruptions == 2 \* chain hashes overwritten per run

OptionDraws == {1, 2}    \* the CreateTransactionOptions values a caller passes
IdDraws == {1, 2}        \* the draws of generateTransactionId() and new Date()

----------------------------------------------------------------------------
(* Constants of the program *)

Undefined == -1                \* JavaScript undefined (an option not given)
TRANSACTION_VERSION == 20      \* '0.2.0'
GENESIS_HASH == 0              \* '0000000000000000': the 16 hex digits of the number 0
DISCLAIMER == 7                \* 'This record documents execution continuity only. ...'
PadWidth == 4                  \* String(seqNum).padStart(4, '0')
HashModulus == 1000003         \* number of values a truncated digest can take (scaled)
HashMultiplier == 257          \* mixing factor of the digest model

Writers == {1, 2}

----------------------------------------------------------------------------
(* Hashing *)

\* crypto.createHash('sha256').update(data).digest('hex').substring(0, 16):
\* a deterministic digest of the whole string, every code unit of which
\* changes the value.  data is a sequence of naturals below HashModulus.
RECURSIVE sha256From(_, _, _)
sha256From(data, i, h) ==
    IF i > Len(data) THEN h
    ELSE sha256From(data, i + 1, (h * HashMultiplier + data[i] + 1) % HashModulus)

sha256(data) == sha256From(data, 1, 1)

\* The code of a member name inside input, outputs and environment.
KeyCode(k) ==
    CASE k = "input_hash" -> 1
      [] k = "input_length" -> 2
      [] k = "input_format" -> 3
      [] k = "detection_hash" -> 4
      [] k = "obligations_hash" -> 5
      [] k = "node_version" -> 6
      [] k = "os" -> 7
      [] k = "ddrp_version" -> 8
      [] k = "ddrp_commit" -> 9

\* JSON.stringify of a nested object: its members in the object's own order,
\* a member whose value is undefined being left out.
RECURSIVE StringifyObject(_)
StringifyObject(obj) ==
    IF obj = <<>> THEN <<>>
    ELSE (IF Head(obj)[2] = Undefined THEN <<>> ELSE <<KeyCode(Head(obj)[1]), Head(obj)[2]>>)
         \o StringifyObject(Tail(obj))

\* JSON.stringify of the object literal of hashTransactionContent: nine members
\* in the fixed order of the literal.
StringifyContent(record) ==
    <<record.ddrp_version, record.transaction_version, record.transaction_id,
      record.timestamp_local, record.timezone>>
    \o <<100>> \o StringifyObject(record.input)
    \o <<101>> \o StringifyObject(record.outputs)
    \o <<102>> \o StringifyObject(record.environment)
    \o <<103, record.chain.previous_transaction_hash>>

hashTransactionContent(record) == sha256(StringifyContent(record))

----------------------------------------------------------------------------
(* File names *)

\* String(n): the decimal digits of n as code units ('0' is 48).
RECURSIVE DecimalString(_)
DecimalString(n) ==
    IF n < 10 THEN <<48 + n>>
    ELSE Append(DecimalString(n \div 10), 48 + (n % 10))

\* s.padStart(width, c): c is put in front while s is shorter than width; a
\* string of at least that length is returned as it is.
RECURSIVE padStart(_, _, _)
padStart(s, width, c) ==
    IF Len(s) >= width THEN s ELSE padStart(<<c>> \o s, width, c)

\* `${String(seqNum).padStart(4, '0')}_transaction.json`.  A name is kept up
\* to and including its '_' (95); what follows is the same in every name.
FileName(seqNum) == Append(padStart(DecimalString(seqNum), PadWidth, 48), 95)

\* parseInt(lastFile.match(/^(\d+)_/)[1], 10): the value of the leading digits.
RECURSIVE ParseDigits(_, _, _)
ParseDigits(name, i, acc) ==
    IF i > Len(name) \/ name[i] < 48 \/ name[i] > 57 THEN acc
    ELSE ParseDigits(name, i + 1, acc * 10 + (name[i] - 48))

\* The order Array.prototype.sort() puts strings in when given no comparator:
\* by UTF-16 code units, a proper prefix before its extensions.
RECURSIVE CodeUnitLessFrom(_, _, _)
CodeUnitLessFrom(a, b, i) ==
    IF i > Len(b) THEN FALSE
    ELSE IF i > Len(a) THEN TRUE
    ELSE IF a[i] # b[i] THEN a[i] < b[i]
    ELSE CodeUnitLessFrom(a, b, i + 1)

CodeUnitLess(a, b) == CodeUnitLessFrom(a, b, 1)

FileLess(f, g) == CodeUnitLess(f.name, g.name)

\* fs.readdirSync(dir).filter(f => f.endsWith('_transaction.json')).sort(),
\* each name together with the content of its file.
SortedFiles(d) == SortSeq(d, FileLess)

----------------------------------------------------------------------------
(* Transaction log operations *)

\* A slip: files[0] instead of files[files.length - 1].
getLastTransactionHash_FirstFile(exists, d) ==
    IF ~exists THEN GENESIS_HASH
    ELSE IF Len(d) = 0 THEN GENESIS_HASH
    ELSE SortedFiles(d)[1].record.chain.transaction_hash

getLastTransactionHash(exists, d) ==
    IF ~exists THEN GENESIS_HASH
    ELSE IF Len(d) = 0 THEN GENESIS_HASH
    ELSE SortedFiles(d)[Len(d)].record.chain.transaction_hash

getNextSequenceNumber(exists, d) ==
    IF ~exists THEN 1
    ELSE IF Len(d) = 0 THEN 1
    ELSE LET lastFile == SortedFiles(d)[Len(d)].name
         IN IF lastFile[1] >= 48 /\ lastFile[1] <= 57
            THEN ParseDigits(lastFile, 1, 0) + 1
            ELSE Len(d) + 1

\* The CreateTransactionOptions value number o.
OptionsOf(o) ==
    [inputHash |-> 10 + o, inputLength |-> 100 + o, inputFormat |-> 1,
     detectionHash |-> 20 + o, obligationsHash |-> 30 + o, ddrpVersion |-> 2,
     ddrpCommit |-> IF o % 2 = 0 THEN 40 + o ELSE Undefined]

\* A slip: the chain link of a record depends on the id drawn for it.
BuildRecord_LinkById(options, id, previousHash) ==
    LET partialRecord ==
            [ddrp_version |-> options.ddrpVersion,
             transaction_version |-> TRANSACTION_VERSION,
             transaction_id |-> id[1],
             timestamp_local |-> id[2],
             timezone |-> 3,
             input |-> << <<"input_hash", options.inputHash>>,
                          <<"input_length", options.inputLength>>,
                          <<"input_format", options.inputFormat>> >>,
             outputs |-> << <<"detection_hash", options.detectionHash>>,
                            <<"obligations_hash", options.obligationsHash>> >>,
             environment |-> << <<"node_version", 4>>, <<"os", 5>>,
                                <<"ddrp_version", options.ddrpVersion>>,
                                <<"ddrp_commit", options.ddrpCommit>> >>,
             chain |-> [previous_transaction_hash |-> sha256(<<previousHash, id[1]>>),
                        transaction_hash |-> Undefined],
             disclaimer |-> DISCLAIMER]
        transactionHash == hashTransactionContent(partialRecord)
    IN [partialRecord EXCEPT !.chain.transaction_hash = transactionHash]

\* Lines 186-221 of createTransactionRecord: the record built around
\* previousHash; id is the pair drawn for generateTransactionId() and
\* new Date().toISOString().
BuildRecord(options, id, previousHash) ==
    LET partialRecord ==
            [ddrp_version |-> options.ddrpVersion,
             transaction_version |-> TRANSACTION_VERSION,
             transaction_id |-> id[1],
             timestamp_local |-> id[2],
             timezone |-> 3,
             input |-> << <<"input_hash", options.inputHash>>,
                          <<"input_length", options.inputLength>>,
                          <<"input_format", options.inputFormat>> >>,
             outputs |-> << <<"detection_hash", options.detectionHash>>,
                            <<"obligations_hash", options.obligationsHash>> >>,
             environment |-> << <<"node_version", 4>>, <<"os", 5>>,
                                <<"ddrp_version", options.ddrpVersion>>,
                                <<"ddrp_commit", options.ddrpCommit>> >>,
             chain |-> [previous_transaction_hash |-> previousHash,
                        transaction_hash |-> Undefined],
             disclaimer |-> DISCLAIMER]
        transactionHash == hashTransactionContent(partialRecord)
    IN [partialRecord EXCEPT !.chain =
            [previous_transaction_hash |-> previousHash,
             transaction_hash |-> transactionHash]]

\* createTransactionRecord(options).
createTransactionRecord(options, id, exists, d) ==
    BuildRecord(options, id, getLastTransactionHash(exists, d))

\* JSON.stringify(record, null, 2) read back by JSON.parse: members whose
\* value is undefined are not in the file.
RECURSIVE DropUndefined(_)
DropUndefined(obj) ==
    IF obj = <<>> THEN <<>>
    ELSE (IF Head(obj)[2] = Undefined THEN <<>> ELSE <<Head(obj)>>)
         \o DropUndefined(Tail(obj))

StoredJSON(record) ==
    [record EXCEPT !.input = DropUndefined(@), !.outputs = DropUndefined(@),
                   !.environment = DropUndefined(@)]

\* A file of the directory: its name and what JSON.parse makes of its text
\* (parses: the text is JSON; hasChain: the parsed object has a chain member).
FileOf(name, record) ==
    [name |-> name, parses |-> TRUE, hasChain |-> TRUE, record |-> StoredJSON(record)]

\* fs.writeFileSync(filepath, ...): replaces the file of that name, or adds it.
WriteFile(d, file) ==
    IF \E i \in 1..Len(d) : d[i].name = file.name
    THEN [i \in 1..Len(d) |-> IF d[i].name = file.name THEN file ELSE d[i]]
    ELSE Append(d, file)

\* writeTransactionRecord(record, dir): the directory afterwards.
writeTransactionRecord(record, exists, d) ==
    LET seqNum == getNextSequenceNumber(TRUE, d)
        filename == FileName(seqNum)
    IN WriteFile(d, FileOf(filename, record))

\* The loop of verifyTransactionChain: for the i-th file of the sorted listing
\* a slot for its chain-link check and one for its self-hash check, in the
\* order the loop pushes the errors.  expectedPreviousHash is GENESIS_HASH for
\* the first file and the stored transaction_hash of the file before it
\* otherwise (line 290 assigns it whatever the checks found).
ErrorSlots(files) ==
    [j \in 1..(2 * Len(files)) |->
        LET i == (j + 1) \div 2
            record == files[i].record
            expectedPreviousHash ==
                IF i = 1 THEN GENESIS_HASH
                ELSE files[i - 1].record.chain.transaction_hash
        IN IF j % 2 = 1
           THEN [file |-> files[i].name, error |-> "Chain break",
                 raised |-> record.chain.previous_transaction_hash # expectedPreviousHash]
           ELSE [file |-> files[i].name, error |-> "Hash mismatch",
                 raised |-> hashTransactionContent(record) # record.chain.transaction_hash]]

IsRaised(slot) == slot.raised

\* A slip: the walk stops at the first error it finds.
verifyTransactionChain_StopAtFirst(exists, d) ==
    IF ~exists \/ Len(d) = 0
    THEN [outcome |-> "returned", valid |-> TRUE, errors |-> <<>>, count |-> 0]
    ELSE LET files == SortedFiles(d)
             errors == SelectSeq(ErrorSlots(files), IsRaised)
         IN [outcome |-> "returned", valid |-> Len(errors) = 0,
             errors |-> IF errors = <<>> THEN <<>> ELSE <<errors[1]>>,
             count |-> Len(files)]

\* verifyTransactionChain(transactionsDir).  JSON.parse throws on a file that
\* is not JSON and record.chain.previous_transaction_hash throws on a record
\* without chain; nothing in the function catches either.
verifyTransactionChain(exists, d) ==
    IF ~exists THEN [outcome |-> "returned", valid |-> TRUE, errors |-> <<>>, count |-> 0]
    ELSE IF Len(d) = 0
    THEN [outcome |-> "returned", valid |-> TRUE, errors |-> <<>>, count |-> 0]
    ELSE LET files == SortedFiles(d)
         IN IF \E i \in 1..Len(files) : ~files[i].parses \/ ~files[i].hasChain
            THEN [outcome |-> "threw", valid |-> FALSE, errors |-> <<>>, count |-> 0]
            ELSE LET errors == SelectSeq(ErrorSlots(files), IsRaised)
                 IN [outcome |-> "returned", valid |-> Len(errors) = 0,
                     errors |-> errors, count |-> Len(files)]

----------------------------------------------------------------------------
(* Out-of-band changes of stored files *)

TopFields == {"ddrp_version", "transaction_version", "transaction_id",
              "timestamp_local", "timezone", "disclaimer"}
HashFields == {"previous_transaction_hash", "transaction_hash"}
Objects == {"input", "outputs", "environment"}

Members(obj) == {obj[i][1] : i \in 1..Len(obj)}
MemberValue(obj, k) == (CHOOSE i \in 1..Len(obj) : obj[i][1] = k)
SetMember(obj, k, v) ==
    [i \in 1..Len(obj) |-> IF obj[i][1] = k THEN <<k, v>> ELSE obj[i]]

\* Every field of a stored record, as <<object, member>> (object "" for the
\* top level).
FieldsOf(record) ==
    {<<"", f>> : f \in TopFields}
    \cup {<<"chain", f>> : f \in HashFields}
    \cup {<<"input", k>> : k \in Members(record.input)}
    \cup {<<"outputs", k>> : k \in Members(record.outputs)}
    \cup {<<"environment", k>> : k \in Members(record.environment)}

ObjectOf(record, o) ==
    CASE o = "input" -> record.input
      [] o = "outputs" -> record.outputs
      [] o = "environment" -> record.environment

FieldValue(record, f) ==
    IF f[1] = "" THEN
        CASE f[2] = "ddrp_version" -> record.ddrp_version
          [] f[2] = "transaction_version" -> record.transaction_version
          [] f[2] = "transaction_id" -> record.transaction_id
          [] f[2] = "timestamp_local" -> record.timestamp_local
          [] f[2] = "timezone" -> record.timezone
          [] f[2] = "disclaimer" -> record.disclaimer
    ELSE IF f[1] = "chain" THEN
        (IF f[2] = "transaction_hash" THEN record.chain.transaction_hash
         ELSE record.chain.previous_transaction_hash)
    ELSE LET obj == ObjectOf(record, f[1]) IN obj[MemberValue(obj, f[2])][2]

SetField(record, f, v) ==
    IF f[1] = "" THEN
        CASE f[2] = "ddrp_version" -> [record EXCEPT !.ddrp_version = v]
          [] f[2] = "transaction_version" -> [record EXCEPT !.transaction_version = v]
          [] f[2] = "transaction_id" -> [record EXCEPT !.transaction_id = v]
          [] f[2] = "timestamp_local" -> [record EXCEPT !.timestamp_local = v]
          [] f[2] = "timezone" -> [record EXCEPT !.timezone = v]
          [] f[2] = "disclaimer" -> [record EXCEPT !.disclaimer = v]
    ELSE IF f[1] = "chain" THEN
        (IF f[2] = "transaction_hash"
         THEN [record EXCEPT !.chain.transaction_hash = v]
         ELSE [record EXCEPT !.chain.previous_transaction_hash = v])
    ELSE CASE f[1] = "input" -> [record EXCEPT !.input = SetMember(@, f[2], v)]
           [] f[1] = "outputs" -> [record EXCEPT !.outputs = SetMember(@, f[2], v)]
           [] f[1] = "environment" -> [record EXCEPT !.environment = SetMember(@, f[2], v)]

\* The values an editor of the files may put in a field: another value of
\* the field's kind; for a chain hash also GENESIS_HASH and every hash stored
\* in the directory.
StoredHashes(d) == {d[i].record.chain.transaction_hash : i \in 1..Len(d)}
                   \cup {d[i].record.chain.previous_transaction_hash : i \in 1..Len(d)}

NewValues(d, i, f) ==
    LET old == FieldValue(d[i].record, f)
    IN ({old + 1} \cup (IF f[1] = "chain" THEN StoredHashes(d) \cup {GENESIS_HASH} ELSE {}))
       \ {old}

NoVerification == [outcome |-> "none", valid |-> FALSE, errors |-> <<>>, count |-> 0]

----------------------------------------------------------------------------
(* The ledger as a state machine *)

NoDetection == [outcome |-> "none"]
NoObligations == [outcome |-> "none"]

\* No detector has been constructed.
DetectorIdle ==
    /\ lastIndex = <<>>
    /\ config = <<>>
    /\ collation = "none"
    /\ text = <<>>
    /\ detected = NoDetection
    /\ baseline = NoDetection

\* No match list has been handed to the obligation engine.
NoPdf == [loading |-> "none"]
NoIngest == [outcome |-> "none"]

IngestIdle ==
    /\ pdf = NoPdf
    /\ ingested = NoIngest

\* JavaScript null.
null == [outcome |-> "null"]

\* The page after init(), before any run was started.
PageLoaded ==
    /\ currentRunId = 0
    /\ currentDetection = null
    /\ currentObligations = null
    /\ currentPDFResult = null
    /\ currentCanonResult = null
    /\ currentTransactionRecord = null
    /\ inputSource = "text"
    /\ lastTransactionHash = GENESIS_HASH
    /\ documentInput = <<>>
    /\ inputDisabled = TRUE
    /\ runReviewDisabled = TRUE
    /\ exportHidden = TRUE
    /\ tasks = <<>>
    /\ alerted = ""
    /\ issued = <<>>
    /\ bundle = null
    /\ events = 0
    /\ reviewsStarted = 0

PageIdle ==
    /\ PageLoaded
    /\ generateTransaction = TRUE

EngineIdle ==
    /\ matchList = <<>>
    /\ obligations = NoObligations

\* No ledger directory, no writer at work.
LedgerIdle ==
    /\ dir = <<>>
    /\ dirExists = FALSE
    /\ pending = [w \in Writers |-> <<>>]
    /\ serial = TRUE
    /\ writeLog = <<>>
    /\ appended = 0
    /\ tampered = <<>>
    /\ verification = NoVerification
    /\ seqRead = [w \in Writers |-> 0]

Init ==
    /\ dir = <<>>
    /\ dirExists \in BOOLEAN
    /\ pending = [w \in Writers |-> <<>>]
    /\ serial = TRUE
    /\ writeLog = <<>>
    /\ appended = 0
    /\ tampered = <<>>
    /\ verification = NoVerification
    /\ seqRead = [w \in Writers |-> 0]
    /\ DetectorIdle
    /\ EngineIdle
    /\ IngestIdle
    /\ PageIdle

NothingPending == \A w \in Writers : pending[w] = <<>>

RECURSIVE SumPending(_)
SumPending(ws) ==
    IF ws = {} THEN 0
    ELSE LET w == CHOOSE x \in ws : TRUE IN Len(pending[w]) + SumPending(ws \ {w})

\* A caller runs createTransactionRecord with one of the options in os and
\* keeps the returned record (ts: the draws of the id and the clock); at most
\* maxWrites records per run.
CreateFrom(w, os, ts, maxWrites) ==
    /\ tampered = <<>>
    /\ seqRead[w] = 0
    /\ Len(pending[w]) < MaxPending
    /\ Len(writeLog) + SumPending(Writers) < maxWrites
    /\ \E o \in os, t \in ts :
          pending' = [pending EXCEPT ![w] =
              Append(@, createTransactionRecord(OptionsOf(o), <<50 + t, 60 + t>>,
                                                dirExists, dir))]
    /\ serial' = (serial /\ NothingPending)
    /\ verification' = NoVerification
    /\ UNCHANGED <<dir, dirExists, writeLog, appended, tampered, seqRead>>
    /\ UNCHANGED <<detectorVars, engineVars, ingestVars, pageVars>>

Create(w) == CreateFrom(w, OptionDraws, IdDraws, MaxAppends)

\* The caller runs writeTransactionRecord on its oldest unwritten record, the
\* whole call in one step (no other process touches the directory meanwhile).
Write(w) ==
    /\ tampered = <<>>
    /\ seqRead[w] = 0
    /\ pending[w] # <<>>
    /\ dir' = writeTransactionRecord(Head(pending[w]), dirExists, dir)
    /\ dirExists' = TRUE
    /\ pending' = [pending EXCEPT ![w] = Tail(@)]
    /\ writeLog' = Append(writeLog,
                     [name |-> FileName(getNextSequenceNumber(TRUE, dir)),
                      record |-> Head(pending[w])])
    /\ appended' = appended + 1
    /\ verification' = NoVerification
    /\ UNCHANGED <<serial, tampered, seqRead>>
    /\ UNCHANGED <<detectorVars, engineVars, ingestVars, pageVars>>

\* writeTransactionRecord in a process that shares the directory with another
\* one, up to line 237: the directory is made and the sequence number read.
BeginWrite(w) ==
    /\ seqRead[w] = 0
    /\ pending[w] # <<>>
    /\ dirExists' = TRUE
    /\ seqRead' = [seqRead EXCEPT ![w] = getNextSequenceNumber(TRUE, dir)]
    /\ verification' = NoVerification
    /\ UNCHANGED <<dir, pending, serial, writeLog, appended, tampered>>
    /\ UNCHANGED <<detectorVars, engineVars, ingestVars, pageVars>>

\* ... and from line 238: the file is written under the number read.
EndWrite(w) ==
    /\ seqRead[w] # 0
    /\ dir' = WriteFile(dir, FileOf(FileName(seqRead[w]), Head(pending[w])))
    /\ pending' = [pending EXCEPT ![w] = Tail(@)]
    /\ writeLog' = Append(writeLog,
                     [name |-> FileName(seqRead[w]), record |-> Head(pending[w])])
    /\ appended' = appended + 1
    /\ seqRead' = [seqRead EXCEPT ![w] = 0]
    /\ verification' = NoVerification
    /\ UNCHANGED <<dirExists, serial, tampered>>
    /\ UNCHANGED <<detectorVars, engineVars, ingestVars, pageVars>>

\* Somebody edits the value of one field of one stored file.
TamperField ==
    /\ tampered = <<>>
    /\ NothingPending
    /\ \E i \in 1..Len(dir) : \E f \in FieldsOf(dir[i].record) :
         \E v \in NewValues(dir, i, f) :
            /\ dir' = [dir EXCEPT ![i].record = SetField(@, f, v)]
            /\ tampered' = Append(tampered, [name |-> dir[i].name, field |-> f])
    /\ verification' = NoVerification
    /\ UNCHANGED <<dirExists, pending, serial, writeLog, appended, seqRead>>
    /\ UNCHANGED <<detectorVars, engineVars, ingestVars, pageVars>>

\* Somebody removes the chain member of a stored record, or leaves a file
\* that is no JSON text.
TamperShape ==
    /\ tampered = <<>>
    /\ NothingPending
    /\ \E i \in 1..Len(dir) :
         \/ /\ dir' = [dir EXCEPT ![i].hasChain = FALSE]
            /\ tampered' = Append(tampered, [name |-> dir[i].name, field |-> <<"", "chain">>])
         \/ /\ dir' = [dir EXCEPT ![i].parses = FALSE]
            /\ tampered' = Append(tampered, [name |-> dir[i].name, field |-> <<"", "*">>])
    /\ verification' = NoVerification
    /\ UNCHANGED <<dirExists, pending, serial, writeLog, appended, seqRead>>
    /\ UNCHANGED <<detectorVars, engineVars, ingestVars, pageVars>>

\* The hash fields that come after the last one overwritten, files in the
\* order of the directory and previous_transaction_hash before
\* transaction_hash (overwriting in another order gives the same files).
LaterHashFields(d, i) ==
    IF tampered = <<>> THEN {<<"chain", h>> : h \in HashFields}
    ELSE LET last == tampered[Len(tampered)]
             li == CHOOSE j \in 1..Len(d) : d[j].name = last.name
         IN IF i > li THEN {<<"chain", h>> : h \in HashFields}
            ELSE IF i = li /\ last.field[2] = "previous_transaction_hash"
            THEN {<<"chain", "transaction_hash">>}
            ELSE {}

\* Somebody overwrites chain hashes of stored files, several of them.
CorruptHash ==
    /\ NothingPending
    /\ Len(tampered) < MaxCorruptions
    /\ \E i \in 1..Len(dir) : \E f \in LaterHashFields(dir, i) :
         \E v \in NewValues(dir, i, f) :
            /\ dir' = [dir EXCEPT ![i].record = SetField(@, f, v)]
            /\ tampered' = Append(tampered, [name |-> dir[i].name, field |-> f])
    /\ verification' = NoVerification
    /\ UNCHANGED <<dirExists, pending, serial, writeLog, appended, seqRead>>
    /\ UNCHANGED <<detectorVars, engineVars, ingestVars, pageVars>>

Verify ==
    /\ verification.outcome = "none"
    /\ verification' = verifyTransactionChain(dirExists, dir)
    /\ UNCHANGED <<dir, dirExists, pending, serial, writeLog, appended, tampered, seqRead>>
    /\ UNCHANGED <<detectorVars, engineVars, ingestVars, pageVars>>

\* One writer process, and an editor of the files.
Next ==
    \/ Create(1)
    \/ Write(1)
    \/ TamperField
    \/ TamperShape
    \/ Verify

Spec == Init /\ [][Next]_vars

\* One writer that writes every record at once, and an editor of the hashes.
NextCorrupt ==
    \/ (NothingPending /\ CreateFrom(1, {1}, {1}, MaxAppends))
    \/ Write(1)
    \/ CorruptHash
    \/ Verify

SpecCorrupt == Init /\ [][NextCorrupt]_vars

\* Two writer processes on one directory.
NextRace ==
    \/ \E w \in Writers : CreateFrom(w, {1}, IdDraws, MaxAppends)
    \/ \E w \in Writers : BeginWrite(w)
    \/ \E w \in Writers : EndWrite(w)
    \/ Verify

SpecRace == Init /\ [][NextRace]_vars

\* One writer process and nobody else at the files.
NextWriter ==
    \/ Create(1)
    \/ Write(1)
    \/ Verify

SpecWriter == Init /\ [][NextWriter]_vars

----------------------------------------------------------------------------
(* Stored files rewritten with their keys in another order *)

\* The orders the n members of an object can be written in.
KeyOrders(n) == {p \in [1..n -> 1..n] : \A i, j \in 1..n : p[i] = p[j] => i = j}

Reordered(obj, p) == [i \in 1..Len(obj) |-> obj[p[i]]]

\* Somebody rewrites one stored file with the same values and its keys in
\* another order: the keys of the record itself (object ""), which JSON.parse
\* gives back as the same members, or the keys inside input, outputs or
\* environment.
ReorderKeys ==
    /\ tampered = <<>>
    /\ NothingPending
    /\ \E i \in 1..Len(dir) :
         \/ /\ dir' = dir
            /\ tampered' = Append(tampered, [name |-> dir[i].name, field |-> <<"", "order">>])
         \/ \E o \in Objects :
              \E p \in KeyOrders(Len(ObjectOf(dir[i].record, o))) :
                 /\ Reordered(ObjectOf(dir[i].record, o), p) # ObjectOf(dir[i].record, o)
                 /\ dir' = [dir EXCEPT ![i].record =
                               CASE o = "input" -> [@ EXCEPT !.input = Reordered(@, p)]
                                 [] o = "outputs" -> [@ EXCEPT !.outputs = Reordered(@, p)]
                                 [] o = "environment" -> [@ EXCEPT !.environment = Reordered(@, p)]]
                 /\ tampered' = Append(tampered, [name |-> dir[i].name, field |-> <<o, "order">>])
    /\ verification' = NoVerification
    /\ UNCHANGED <<dirExists, pending, serial, writeLog, appended, seqRead>>
    /\ UNCHANGED <<detectorVars, engineVars, ingestVars, pageVars>>

NextReorder ==
    \/ (NothingPending /\ CreateFrom(1, OptionDraws, {1}, MaxAppends))
    \/ Write(1)
    \/ ReorderKeys
    \/ Verify

SpecReorder == Init /\ [][NextReorder]_vars

----------------------------------------------------------------------------
(* A ledger that is two appends short of using up the padded width *)

BaseCount == 10 ^ PadWidth - 2

\* The files lo..hi of the ledger that a single writer leaves who appends
\* hi records to an empty directory, each record right after creating it;
\* prev is the transaction_hash of file lo - 1.
RECURSIVE ChainOf(_, _, _)
ChainOf(lo, hi, prev) ==
    IF lo > hi THEN <<>>
    ELSE IF lo = hi
    THEN << FileOf(FileName(lo), BuildRecord(OptionsOf(1), <<51, 61>>, prev)) >>
    ELSE LET mid == (lo + hi) \div 2
             left == ChainOf(lo, mid, prev)
             right == ChainOf(mid + 1, hi, left[Len(left)].record.chain.transaction_hash)
         IN left \o right

InitLarge ==
    /\ dir = ChainOf(1, BaseCount, GENESIS_HASH)
    /\ dirExists = TRUE
    /\ pending = [w \in Writers |-> <<>>]
    /\ serial = TRUE
    /\ writeLog = <<>>
    /\ appended = BaseCount
    /\ tampered = <<>>
    /\ verification = NoVerification
    /\ seqRead = [w \in Writers |-> 0]
    /\ DetectorIdle
    /\ EngineIdle
    /\ IngestIdle
    /\ PageIdle

NextLarge ==
    \/ (NothingPending /\ CreateFrom(1, {1}, IdDraws, MaxAppends + 1))
    \/ Write(1)
    \/ Verify

SpecLarge == InitLarge /\ [][NextLarge]_vars

----------------------------------------------------------------------------
(* The operator detector.  A text is its sequence of UTF-16 code units;    *)
(* offsets count code units from 0.                                         *)

MaxTextLen == 2     \* length of the texts scanned

Chars == {109, 110}      \* 'm', 'n'
Texts == UNION {[1..n -> Chars] : n \in 0..MaxTextLen}

Detectors == {1, 2}

\* PatternDefinition objects that a caller puts into the OperatorDetectorConfig
\* of its detectors, in the format of PATTERNS_V0_1: OP_M_1, a REQ pattern
\* /(m)/g, and OP_MN_1, a CAUSE pattern /(mn)/g.  An id is its sequence of
\* code units; the regular expression is given by the literal it matches.
PatternObjects == <<
    [id |-> <<79, 80, 95, 77, 95, 49>>, op_type |-> "REQ",
     literal |-> <<109>>, capture_names |-> <<"keyword">>,
     metadata |-> << <<"strength", "hard">>, <<"negated", "false">> >>],
    [id |-> <<79, 80, 95, 77, 78, 95, 49>>, op_type |-> "CAUSE",
     literal |-> <<109, 110>>, capture_names |-> <<"keyword">>,
     metadata |-> <<>>] >>

PatternIndexes == DOMAIN PatternObjects

\* The orders a config may list the pattern objects in.
Registries ==
    {r \in [PatternIndexes -> PatternIndexes] : \A p \in PatternIndexes : \E k \in PatternIndexes : r[k] = p}

\* The order of the array the pattern objects were defined in.
DefinitionOrder == [k \in PatternIndexes |-> k]

\* Number.prototype.toString(16) of a natural: the hex digits as code units.
RECURSIVE HexString(_)
HexString(n) ==
    LET digit == n % 16
        unit == IF digit < 10 THEN 48 + digit ELSE 87 + digit
    IN IF n < 16 THEN <<unit>> ELSE Append(HexString(n \div 16), unit)

\* A 32-bit integer of the runtime is kept as its two 16-bit halves
\* <<high, low>>, in two's complement: the bits that `<<` and `&` work on.
Half == 65536

Zero32 == <<0, 0>>

\* hash << n
ShiftLeft(h, n) ==
    LET low == h[2] * (2 ^ n)
    IN <<(h[1] * (2 ^ n) + low \div Half) % Half, low % Half>>

\* The 32 low bits of a - b.
Subtract(a, b) ==
    LET low == a[2] - b[2]
        borrow == IF low < 0 THEN 1 ELSE 0
    IN <<(a[1] - b[1] - borrow + Half) % Half, low + borrow * Half>>

\* The 32 low bits of h + char, char a code unit.
AddUnit(h, char) ==
    LET low == h[2] + char
    IN <<(h[1] + low \div Half) % Half, low % Half>>

\* The sign bit.
IsNegative(h) == h[1] >= Half \div 2

\* A variant that reads the 32 bits as an unsigned number (hash >>> 0).
MathAbs_Unsigned(h) == h

\* Math.abs(hash): a number from 0 to 2^31, as halves.
MathAbs(h) == IF IsNegative(h) THEN Subtract(Zero32, h) ELSE h

\* n.toString(16) of a number from 0 to 2^32 - 1 given as halves.
ToString16(n) ==
    IF n[1] = 0 THEN HexString(n[2])
    ELSE HexString(n[1]) \o padStart(HexString(n[2]), 4, 48)

\* simpleHash(str): hash = ((hash << 5) - hash) + char and hash = hash & hash
\* per code unit, then Math.abs(hash).toString(16).padStart(8, '0').  The
\* difference and the sum are exact numbers, of which hash & hash keeps the 32
\* low bits.
RECURSIVE simpleHashFrom(_, _, _)
simpleHashFrom(str, i, hash) ==
    IF i > Len(str) THEN hash
    ELSE simpleHashFrom(str, i + 1, AddUnit(Subtract(ShiftLeft(hash, 5), hash), str[i]))

simpleHash(str) ==
    LET hash == simpleHashFrom(str, 1, Zero32)
    IN padStart(ToString16(MathAbs(hash)), 8, 48)

\* Does the regular expression match t at offset s?
MatchesAt(literal, t, s) ==
    /\ s + Len(literal) <= Len(t)
    /\ \A j \in 1..Len(literal) : t[s + j] = literal[j]

\* pattern.exec(t) of a global RegExp whose lastIndex is from: the offset of
\* the first match at or after from in a one-element sequence, or <<>> for
\* null.
exec(literal, t, from) ==
    LET starts == {s \in from..Len(t) : MatchesAt(literal, t, s)}
    IN IF starts = {} THEN <<>>
       ELSE <<CHOOSE s \in starts : \A s2 \in starts : s <= s2>>

\* A variant that reports char_end as the offset of the last code unit of the
\* match.
MatchOf_EndInclusive(p, t, s) ==
    LET def == PatternObjects[p]
        matched == SubSeq(t, s + 1, s + Len(def.literal))
    IN [op_type |-> def.op_type,
        pattern_id |-> def.id,
        char_start |-> s,
        char_end |-> s + Len(def.literal) - 1,
        matched_text |-> matched,
        captures |-> [i \in 1..Len(def.capture_names) |-> <<def.capture_names[i], matched>>],
        metadata |-> def.metadata]

\* The OperatorMatch pushed for a match of pattern object p at offset s.
MatchOf(p, t, s) ==
    LET def == PatternObjects[p]
        matched == SubSeq(t, s + 1, s + Len(def.literal))
    IN [op_type |-> def.op_type,
        pattern_id |-> def.id,
        char_start |-> s,
        char_end |-> s + Len(def.literal),
        matched_text |-> matched,
        captures |-> [i \in 1..Len(def.capture_names) |-> <<def.capture_names[i], matched>>],
        metadata |-> def.metadata]

\* The while loop over pattern.exec(text), entered with lastIndex = from: the
\* matches pushed, each exec moving lastIndex to the end of its match.
RECURSIVE ScanPattern(_, _, _)
ScanPattern(p, t, from) ==
    LET found == exec(PatternObjects[p].literal, t, from)
    IN IF found = <<>> THEN <<>>
       ELSE <<MatchOf(p, t, found[1])>>
                \o ScanPattern(p, t, found[1] + Len(PatternObjects[p].literal))

\* A variant that leaves out `patternDef.pattern.lastIndex = 0`.
ResetLastIndex_Skipped(cursor) == cursor

\* patternDef.pattern.lastIndex = 0: the lastIndex the loop is entered with.
ResetLastIndex(cursor) == 0

\* A variant in which a pattern does not report a match that overlaps a match
\* of a pattern scanned before it.
RECURSIVE CollectMatches_SkipOverlaps(_, _, _, _)
CollectMatches_SkipOverlaps(registry, t, cursors, k) ==
    IF k = 0 THEN <<>>
    ELSE LET before == CollectMatches_SkipOverlaps(registry, t, cursors, k - 1)
         IN before
              \o SelectSeq(ScanPattern(registry[k], t, ResetLastIndex(cursors[registry[k]])),
                           LAMBDA m : \A i \in 1..Len(before) :
                                         \/ before[i].char_end <= m.char_start
                                         \/ m.char_end <= before[i].char_start)

\* The matches array after the loop over the first k patterns of the config.
RECURSIVE CollectMatches(_, _, _, _)
CollectMatches(registry, t, cursors, k) ==
    IF k = 0 THEN <<>>
    ELSE CollectMatches(registry, t, cursors, k - 1)
           \o ScanPattern(registry[k], t, ResetLastIndex(cursors[registry[k]]))

\* Primary weight of a code unit in the root collation of ICU: '_' with the
\* punctuation before the digits, the digits before the letters, a letter
\* the same in either case.
PrimaryWeight(c) ==
    IF c = 95 THEN 0
    ELSE IF c \in 48..57 THEN c - 47
    ELSE IF c \in 65..90 THEN c - 54
    ELSE IF c \in 97..122 THEN c - 86
    ELSE 37 + c

\* Tertiary weight: lower case before upper case.
TertiaryWeight(c) == IF c \in 65..90 THEN 1 ELSE 0

\* a.localeCompare(b) < 0.  With ICU the primary weights decide, then the
\* case; a runtime built without Intl compares code units.
localeCompareLess(a, b, coll) ==
    IF coll = "codeunit" THEN CodeUnitLess(a, b)
    ELSE LET pa == [i \in 1..Len(a) |-> PrimaryWeight(a[i])]
             pb == [i \in 1..Len(b) |-> PrimaryWeight(b[i])]
             ta == [i \in 1..Len(a) |-> TertiaryWeight(a[i])]
             tb == [i \in 1..Len(b) |-> TertiaryWeight(b[i])]
         IN IF pa # pb THEN CodeUnitLess(pa, pb) ELSE CodeUnitLess(ta, tb)

\* The comparator of matches.sort: char_start, then pattern_id.localeCompare.
MatchBefore(a, b, coll) ==
    IF a.char_start # b.char_start THEN a.char_start < b.char_start
    ELSE localeCompareLess(a.pattern_id, b.pattern_id, coll)

----------------------------------------------------------------------------
(* The obligation engine (src/unnamed/part_007).  A phrase is the sequence  *)
(* of its words where the engine looks at the words, case folded.           *)

MaxMatches == 3     \* length of the match lists handed to the engine

FIELD_SEARCH_WINDOW == 500

REQUIRED_FIELDS(oblType) ==
    CASE oblType = "REQ_APPLICABILITY" -> <<"what", "who">>
      [] oblType = "DEF_CONSISTENCY" -> <<"what">>
      [] oblType = "CAUSE_SUPPORT" -> <<"why">>
      [] oblType = "SCOPE_BOUNDING" -> <<"scope">>

\* A variant in which a UNIV match triggers an obligation too.
OPERATOR_TO_OBLIGATION_Univ(opType) ==
    CASE opType = "REQ" -> "REQ_APPLICABILITY"
      [] opType = "DEF" -> "DEF_CONSISTENCY"
      [] opType = "CAUSE" -> "CAUSE_SUPPORT"
      [] opType \in {"SCOPE", "UNIV"} -> "SCOPE_BOUNDING"
      [] OTHER -> ""

\* OPERATOR_TO_OBLIGATION[op_type]; "" where the map has no entry.
OPERATOR_TO_OBLIGATION(opType) ==
    CASE opType = "REQ" -> "REQ_APPLICABILITY"
      [] opType = "DEF" -> "DEF_CONSISTENCY"
      [] opType = "CAUSE" -> "CAUSE_SUPPORT"
      [] opType = "SCOPE" -> "SCOPE_BOUNDING"
      [] OTHER -> ""

\* match.captures[name]; <<>> for a capture that is undefined or empty (both
\* are falsy where the engine reads captures).
Capture(match, name) ==
    LET hits == SelectSeq(match.captures, LAMBDA c : c[1] = name)
    IN IF hits = <<>> THEN <<>> ELSE hits[Len(hits)][2]

WhoNouns == {"users", "customers", "clients", "employees", "members", "participants",
             "minors", "children"}
Places == {"eu", "us", "uk", "california", "delaware"}
TimeUnits == {"day", "days", "week", "weeks", "month", "months", "year", "years",
              "hour", "hours", "minute", "minutes"}
Numerals == {"7", "30"}

WordAt(phrase, i) == IF i \in 1..Len(phrase) THEN phrase[i] ELSE ""

\* A variant that takes every scope phrase to name an actor.
MentionsWho_Always(phrase) == TRUE

\* /\b(?:for\s+(?:all\s+)?(?:users|...|children))\b/i.test(scopePhrase)
MentionsWho(phrase) ==
    \E i \in 1..Len(phrase) :
        /\ phrase[i] = "for"
        /\ \/ WordAt(phrase, i + 1) \in WhoNouns
           \/ WordAt(phrase, i + 1) = "all" /\ WordAt(phrase, i + 2) \in WhoNouns

\* /\b(?:in\s+(?:the\s+)?(?:EU|US|UK|United\s+States|...))\b/i.test(scopePhrase)
NamesPlaceAt(phrase, i) ==
    \/ WordAt(phrase, i) \in Places
    \/ WordAt(phrase, i) = "united" /\ WordAt(phrase, i + 1) = "states"
    \/ WordAt(phrase, i) = "european" /\ WordAt(phrase, i + 1) = "union"

MentionsWhere(phrase) ==
    \E i \in 1..Len(phrase) :
        /\ phrase[i] = "in"
        /\ \/ NamesPlaceAt(phrase, i + 1)
           \/ WordAt(phrase, i + 1) = "the" /\ NamesPlaceAt(phrase, i + 2)

\* /\b(?:within\s+\d+\s+(?:days?|...|business\s+days?))\b/i.test(scopePhrase)
MentionsWhen(phrase) ==
    \E i \in 1..Len(phrase) :
        /\ phrase[i] = "within"
        /\ WordAt(phrase, i + 1) \in Numerals
        /\ \/ WordAt(phrase, i + 2) \in TimeUnits
           \/ WordAt(phrase, i + 2) = "business" /\ WordAt(phrase, i + 3) \in {"day", "days"}

FieldEvidence(match, field, value) ==
    [field |-> field,
     source_op_id |-> match.pattern_id,
     char_start |-> match.char_start,
     char_end |-> match.char_end,
     value |-> value]

extractFieldsFromMatch(match) ==
    CASE match.op_type = "DEF" ->
           IF Capture(match, "term") # <<>>
           THEN <<FieldEvidence(match, "what", Capture(match, "term"))>>
           ELSE <<>>
      [] match.op_type = "CAUSE" ->
           <<FieldEvidence(match, "why", match.matched_text)>>
      [] match.op_type = "SCOPE" ->
           LET scopePhrase == IF Capture(match, "scope_phrase") # <<>>
                              THEN Capture(match, "scope_phrase")
                              ELSE match.matched_text
           IN (IF MentionsWho(scopePhrase)
               THEN <<FieldEvidence(match, "who", scopePhrase)>> ELSE <<>>)
              \o (IF MentionsWhere(scopePhrase)
                  THEN <<FieldEvidence(match, "where", scopePhrase)>> ELSE <<>>)
              \o (IF MentionsWhen(scopePhrase)
                  THEN <<FieldEvidence(match, "when", scopePhrase)>> ELSE <<>>)
              \o <<FieldEvidence(match, "scope", scopePhrase)>>
      [] OTHER -> <<>>

\* A variant that keeps the last three digits of the counter.
generateObligationId_ThreeDigits(type, index) ==
    <<"OBL", type, padStart(DecimalString(index % 1000), 3, 48)>>

\* `OBL_${type}_${String(index).padStart(3, '0')}`
generateObligationId(type, index) == <<"OBL", type, padStart(DecimalString(index), 3, 48)>>

Contains(s, x) == \E i \in 1..Len(s) : s[i] = x

\* A variant that asks for some required field instead of every one.
determineStatus_SomePresent(required, present) ==
    IF \E i \in 1..Len(required) : Contains(present, required[i])
    THEN "SATISFIED" ELSE "OPEN"

determineStatus(required, present) ==
    IF \A i \in 1..Len(required) : Contains(present, required[i])
    THEN "SATISFIED" ELSE "OPEN"

\* `${match.pattern_id}:${match.char_start}`
matchKey(match) == <<match.pattern_id, match.char_start>>

\* allEvidence.get(key) after phase 1: Map.set replaces the entry of a key
\* set before, so the last match with the key gives its evidence.
allEvidenceGet(matches, key) ==
    LET at == {i \in 1..Len(matches) : matchKey(matches[i]) = key}
        last == CHOOSE i \in at : \A j \in at : j <= i
    IN extractFieldsFromMatch(matches[last])

\* A variant without the window: every other match is taken as nearby.
Nearby_Anywhere(match, triggerMatch) == TRUE

\* A variant whose window leaves out the distance FIELD_SEARCH_WINDOW itself.
Nearby_Exclusive(match, triggerMatch) ==
    LET d == (match.char_start + match.char_end)
               - (triggerMatch.char_start + triggerMatch.char_end)
    IN (IF d < 0 THEN -d ELSE d) < 2 * FIELD_SEARCH_WINDOW

\* |matchMid - triggerMid| <= FIELD_SEARCH_WINDOW, the midpoints doubled.
Nearby(match, triggerMatch) ==
    LET d == (match.char_start + match.char_end)
               - (triggerMatch.char_start + triggerMatch.char_end)
    IN (IF d < 0 THEN -d ELSE d) <= 2 * FIELD_SEARCH_WINDOW

\* seqs[lo] \o ... \o seqs[hi]
RECURSIVE ConcatAll(_, _, _)
ConcatAll(seqs, lo, hi) ==
    IF lo > hi THEN <<>>
    ELSE IF lo = hi THEN seqs[lo]
    ELSE LET mid == (lo + hi) \div 2
         IN ConcatAll(seqs, lo, mid) \o ConcatAll(seqs, mid + 1, hi)

\* findNearbyFieldEvidence over the first k matches; the trigger is the
\* object at position t of the list (match === triggerMatch).  The evidence
\* of the matches that pass both tests is pushed in the order of the list.
findNearbyFieldEvidenceUpTo(t, matches, k) ==
    LET near == SelectSeq([i \in 1..k |-> i],
                          LAMBDA i : i # t /\ Nearby(matches[i], matches[t]))
    IN ConcatAll([i \in 1..Len(near) |-> allEvidenceGet(matches, matchKey(matches[near[i]]))],
                 1, Len(near))

findNearbyFieldEvidence(t, matches) == findNearbyFieldEvidenceUpTo(t, matches, Len(matches))

\* A variant in which a later evidence of a field replaces the one kept.
RECURSIVE evidenceByFieldUpTo_LastSeen(_, _)
evidenceByFieldUpTo_LastSeen(combined, k) ==
    IF k = 0 THEN <<>>
    ELSE LET before == evidenceByFieldUpTo_LastSeen(combined, k - 1)
         IN IF \E i \in 1..Len(before) : before[i].field = combined[k].field
            THEN [i \in 1..Len(before) |->
                     IF before[i].field = combined[k].field THEN combined[k] ELSE before[i]]
            ELSE Append(before, combined[k])

\* evidenceByField: the first evidence of each field, in insertion order.
RECURSIVE evidenceByFieldUpTo(_, _)
evidenceByFieldUpTo(combined, k) ==
    IF k = 0 THEN <<>>
    ELSE LET before == evidenceByFieldUpTo(combined, k - 1)
         IN IF \E i \in 1..Len(before) : before[i].field = combined[k].field
            THEN before
            ELSE Append(before, combined[k])

\* A variant that lists every required field as missing.
missingFields_Unfiltered(required, present) == required

\* required.filter(f => !evidenceByField.has(f))
missingFields(required, present) ==
    SelectSeq(required, LAMBDA f : ~Contains(present, f))

\* counters[oblType] after the trigger at position t was counted.
CounterAt(matches, t) ==
    Cardinality({i \in 1..t : OPERATOR_TO_OBLIGATION(matches[i].op_type)
                                 = OPERATOR_TO_OBLIGATION(matches[t].op_type)})

\* The obligation pushed for the trigger at position t of the list.
ObligationOf(matches, t) ==
    LET match == matches[t]
        oblType == OPERATOR_TO_OBLIGATION(match.op_type)
        required == REQUIRED_FIELDS(oblType)
        directEvidence == allEvidenceGet(matches, matchKey(match))
        combinedEvidence == directEvidence \o findNearbyFieldEvidence(t, matches)
        evidence == evidenceByFieldUpTo(combinedEvidence, Len(combinedEvidence))
        presentFields == [i \in 1..Len(evidence) |-> evidence[i].field]
    IN [obl_id |-> generateObligationId(oblType, CounterAt(matches, t)),
        obl_type |-> oblType,
        trigger_op_id |-> match.pattern_id,
        trigger_char_start |-> match.char_start,
        trigger_char_end |-> match.char_end,
        required_fields |-> required,
        present_fields |-> presentFields,
        missing_fields |-> missingFields(required, presentFields),
        status |-> determineStatus(required, presentFields),
        evidence |-> evidence]

ObligationsUpTo(matches, k) ==
    LET triggers == SelectSeq([i \in 1..k |-> i],
                              LAMBDA i : OPERATOR_TO_OBLIGATION(matches[i].op_type) # "")
    IN [i \in 1..Len(triggers) |-> ObligationOf(matches, triggers[i])]

\* A variant that counts every obligation under every status.
CountStatus_All(obls, status) == Len(obls)

CountStatus(obls, status) == Len(SelectSeq(obls, LAMBDA o : o.status = status))

instantiateObligations(matches) ==
    LET obls == ObligationsUpTo(matches, Len(matches))
    IN [outcome |-> "returned",
        version |-> "0.1.0",
        obligation_count |-> Len(obls),
        obligations |-> obls,
        status_summary |-> [SATISFIED |-> CountStatus(obls, "SATISFIED"),
                            OPEN |-> CountStatus(obls, "OPEN"),
                            CONTRADICTED |-> CountStatus(obls, "CONTRADICTED"),
                            AMBIGUOUS |-> CountStatus(obls, "AMBIGUOUS")]]

----------------------------------------------------------------------------
(* Detectors that share pattern objects, as a state machine *)

\* The DetectionResult of detect(t) by a detector whose config lists the
\* pattern objects as registry, the objects' lastIndex being cursors.
detect(registry, t, cursors, coll) ==
    [version |-> "0.1.0",
     pattern_count |-> Len(registry),
     matches |-> SortSeq(CollectMatches(registry, t, cursors, Len(registry)),
                         LAMBDA a, b : MatchBefore(a, b, coll)),
     input_hash |-> simpleHash(t)]

\* lastIndex of the pattern objects when detect returns: the exec that ends a
\* pattern's loop with null has set its lastIndex to 0.
CursorsAfterDetect(registry, cursors) ==
    [p \in DOMAIN cursors |->
        IF \E k \in 1..Len(registry) : registry[k] = p THEN 0 ELSE cursors[p]]

\* lastIndex of the pattern objects when detect ends with an exception thrown
\* in the loop body of the k-th pattern, after its j-th match.
CursorsAfterThrow(registry, t, cursors, k, j) ==
    LET scan == ScanPattern(registry[k], t, ResetLastIndex(cursors[registry[k]]))
    IN [p \in DOMAIN cursors |->
          IF \E i \in 1..(k - 1) : registry[i] = p THEN 0
          ELSE IF p = registry[k] THEN scan[j].char_end
          ELSE cursors[p]]

\* Some pattern of the registry holds a lastIndex from which its scan of t
\* would find other matches than from 0.
StaleCursor(registry, t, cursors) ==
    \E k \in 1..Len(registry) :
        /\ cursors[registry[k]] > 0
        /\ ScanPattern(registry[k], t, cursors[registry[k]]) # ScanPattern(registry[k], t, 0)

\* Detector 2 lists the pattern objects in the order of their definition,
\* detector 1 in any order; every RegExp is fresh.
InitDetect ==
    /\ LedgerIdle
    /\ IngestIdle
    /\ PageIdle
    /\ EngineIdle
    /\ lastIndex = [p \in PatternIndexes |-> 0]
    /\ config \in {c \in [Detectors -> Registries] : c[2] = DefinitionOrder}
    /\ collation \in {"icu", "codeunit"}
    /\ text \in Texts
    /\ detected = NoDetection
    /\ baseline = NoDetection

\* detect(text) by detector d, then instantiateObligations(result.matches).
Detect(d) ==
    LET detection == detect(config[d], text, lastIndex, collation)
        call == [outcome |-> "returned",
                 by |-> d,
                 stale |-> StaleCursor(config[d], text, lastIndex),
                 detection |-> detection,
                 obligations |-> instantiateObligations(detection.matches)]
    IN /\ detected' = call
       /\ baseline' \in (IF baseline = NoDetection THEN {NoDetection, call} ELSE {baseline})
       /\ lastIndex' = CursorsAfterDetect(config[d], lastIndex)
       /\ UNCHANGED <<config, collation, text>>
       /\ UNCHANGED <<ledgerVars, engineVars, ingestVars, pageVars>>

\* detect of some other text by detector d, to its return: whatever the
\* text, every loop ends with the exec that returns null.
ScanOther(d) ==
    /\ lastIndex' = CursorsAfterDetect(config[d], lastIndex)
    /\ UNCHANGED <<config, collation, text, detected, baseline>>
    /\ UNCHANGED <<ledgerVars, engineVars, ingestVars, pageVars>>

\* detect(u) of some text by detector d that ends in an error.
ScanThrows(d, u) ==
    /\ \E k \in 1..Len(config[d]) :
         \E j \in 1..Len(ScanPattern(config[d][k], u, ResetLastIndex(lastIndex[config[d][k]]))) :
            lastIndex' = CursorsAfterThrow(config[d], u, lastIndex, k, j)
    /\ UNCHANGED <<config, collation, text, detected, baseline>>
    /\ UNCHANGED <<ledgerVars, engineVars, ingestVars, pageVars>>

NextDetect ==
    \/ \E d \in Detectors : Detect(d)
    \/ \E d \in Detectors : ScanOther(d)
    \/ \E d \in Detectors, u \in Texts : ScanThrows(d, u)

SpecDetect == InitDetect /\ [][NextDetect]_vars

----------------------------------------------------------------------------
(* Detectors given texts whose hash leaves the 32-bit range *)

MaxHashLen == 5     \* length of the texts hashed

\* ' ', 'm' and the largest code unit.
HashUnits == {32, 109, 65535}

\* "Gycxe~", a text with hash -2^31.
MinimumText == <<71, 121, 99, 120, 101, 126>>

HashTexts == UNION {[1..n -> HashUnits] : n \in 0..MaxHashLen} \cup {MinimumText}

InitHash ==
    /\ LedgerIdle
    /\ IngestIdle
    /\ PageIdle
    /\ EngineIdle
    /\ lastIndex = [p \in PatternIndexes |-> 0]
    /\ config = [d \in Detectors |-> DefinitionOrder]
    /\ collation = "codeunit"
    /\ text \in HashTexts
    /\ detected = NoDetection
    /\ baseline = NoDetection

NextHash == \E d \in Detectors : Detect(d)

SpecHash == InitHash /\ [][NextHash]_vars

----------------------------------------------------------------------------
(* One call of detect, exec by exec *)

\* PatternDefinition objects of a caller's registry: a well-formed rule /(m)/g;
\* a rule /()/g, which matches the empty string at every offset; and a rule
\* /(n)/g whose metadata_extractor throws.
ScanRules == <<
    [id |-> <<79, 80, 95, 77, 95, 49>>, op_type |-> "REQ",
     literal |-> <<109>>, capture_names |-> <<"keyword">>,
     metadata |-> << <<"strength", "hard">>, <<"negated", "false">> >>, throws |-> FALSE],
    [id |-> <<79, 80, 95, 69, 95, 49>>, op_type |-> "UNIV",
     literal |-> <<>>, capture_names |-> <<"keyword">>,
     metadata |-> <<>>, throws |-> FALSE],
    [id |-> <<79, 80, 95, 78, 95, 49>>, op_type |-> "CAUSE",
     literal |-> <<110>>, capture_names |-> <<"keyword">>,
     metadata |-> <<>>, throws |-> TRUE] >>

RuleIndexes == DOMAIN ScanRules

\* The registries a caller may build of them: some of the rules, in some order.
RuleRegistries ==
    UNION {{r \in [1..n -> RuleIndexes] : \A i, j \in 1..n : r[i] = r[j] => i = j}
              : n \in 1..Len(ScanRules)}

\* The matches array as far as it is followed here; a scan of rules that
\* advance pushes fewer matches than this for the texts at hand.
PushesKept == MaxTextLen + 2

\* The OperatorMatch pushed for a match of rule r at offset s.
RuleMatchOf(r, t, s) ==
    LET def == ScanRules[r]
        matched == SubSeq(t, s + 1, s + Len(def.literal))
    IN [op_type |-> def.op_type,
        pattern_id |-> def.id,
        char_start |-> s,
        char_end |-> s + Len(def.literal),
        matched_text |-> matched,
        captures |-> [i \in 1..Len(def.capture_names) |-> <<def.capture_names[i], matched>>],
        metadata |-> def.metadata]

InitScan ==
    /\ LedgerIdle
    /\ IngestIdle
    /\ PageIdle
    /\ EngineIdle
    /\ lastIndex = [r \in RuleIndexes |-> 0]
    /\ config \in [{1} -> RuleRegistries]
    /\ collation \in {"icu", "codeunit"}
    /\ text \in Texts
    /\ detected = NoDetection
    /\ baseline = NoDetection

\* detect(text) is entered: the for loop takes the first pattern and sets
\* its lastIndex to 0.
EnterDetect ==
    /\ detected = NoDetection
    /\ detected' = [outcome |-> "scanning", k |-> 1, matches |-> <<>>]
    /\ lastIndex' = [lastIndex EXCEPT ![config[1][1]] = 0]
    /\ UNCHANGED <<config, collation, text, baseline>>
    /\ UNCHANGED <<ledgerVars, engineVars, ingestVars, pageVars>>

\* The rule of the pattern the for loop is at, and what its exec finds.
CurrentRule == config[1][detected.k]
Found == exec(ScanRules[CurrentRule].literal, text, lastIndex[CurrentRule])

\* pattern.exec(text) returns a match, which the loop body pushes: exec has
\* set lastIndex to the end of the match.
ExecPushes ==
    /\ detected.outcome = "scanning"
    /\ Found # <<>>
    /\ ~ScanRules[CurrentRule].throws
    /\ detected' = [detected EXCEPT !.matches =
                       IF Len(@) < PushesKept
                       THEN Append(@, RuleMatchOf(CurrentRule, text, Found[1]))
                       ELSE @]
    /\ lastIndex' = [lastIndex EXCEPT ![CurrentRule] = Found[1] + Len(ScanRules[CurrentRule].literal)]
    /\ UNCHANGED <<config, collation, text, baseline>>
    /\ UNCHANGED <<ledgerVars, engineVars, ingestVars, pageVars>>

\* pattern.exec(text) returns a match and metadata_extractor(match) throws:
\* nothing in detect catches it.
ExecThrows ==
    /\ detected.outcome = "scanning"
    /\ Found # <<>>
    /\ ScanRules[CurrentRule].throws
    /\ detected' = [outcome |-> "threw"]
    /\ lastIndex' = [lastIndex EXCEPT ![CurrentRule] = Found[1] + Len(ScanRules[CurrentRule].literal)]
    /\ UNCHANGED <<config, collation, text, baseline>>
    /\ UNCHANGED <<ledgerVars, engineVars, ingestVars, pageVars>>

\* pattern.exec(text) returns null and leaves lastIndex 0; the for loop goes
\* on to the next pattern.
ExecEndsPattern ==
    /\ detected.outcome = "scanning"
    /\ Found = <<>>
    /\ detected.k < Len(config[1])
    /\ detected' = [detected EXCEPT !.k = @ + 1]
    /\ lastIndex' = [lastIndex EXCEPT ![CurrentRule] = 0, ![config[1][detected.k + 1]] = 0]
    /\ UNCHANGED <<config, collation, text, baseline>>
    /\ UNCHANGED <<ledgerVars, engineVars, ingestVars, pageVars>>

\* pattern.exec(text) returns null for the last pattern: the matches are
\* sorted and the DetectionResult is returned.
ExecEndsDetect ==
    /\ detected.outcome = "scanning"
    /\ Found = <<>>
    /\ detected.k = Len(config[1])
    /\ detected' = [outcome |-> "returned",
                    detection |->
                       [version |-> "0.1.0",
                        pattern_count |-> Len(config[1]),
                        matches |-> SortSeq(detected.matches,
                                            LAMBDA a, b : MatchBefore(a, b, collation)),
                        input_hash |-> simpleHash(text)]]
    /\ lastIndex' = [lastIndex EXCEPT ![CurrentRule] = 0]
    /\ UNCHANGED <<config, collation, text, baseline>>
    /\ UNCHANGED <<ledgerVars, engineVars, ingestVars, pageVars>>

NextScan ==
    \/ EnterDetect
    \/ ExecPushes
    \/ ExecThrows
    \/ ExecEndsPattern
    \/ ExecEndsDetect

SpecScan == InitScan /\ [][NextScan]_vars

\* The runtime goes on executing a call it has entered.
SpecScanFair == SpecScan /\ WF_vars(NextScan)

----------------------------------------------------------------------------
(* Callers of the obligation engine, as a state machine *)

NoMetadata == <<>>
HardRequirement == << <<"strength", "hard">>, <<"negated", "false">> >>

\* Matches as the detector reports them for the default patterns, in texts
\* such as "for all users ... must ... because ... Data means ...".
MatchPool == {
    [op_type |-> "SCOPE", pattern_id |-> "SCOPE_FOR_USERS_001",
     char_start |-> 0, char_end |-> 13, matched_text |-> <<"for", "all", "users">>,
     captures |-> << <<"scope_phrase", <<"for", "all", "users">> >> >>,
     metadata |-> NoMetadata],
    [op_type |-> "UNIV", pattern_id |-> "UNIV_ALL_001",
     char_start |-> 4, char_end |-> 7, matched_text |-> <<"all">>,
     captures |-> << <<"quantifier", <<"all">> >> >>,
     metadata |-> NoMetadata],
    [op_type |-> "REQ", pattern_id |-> "REQ_MUST_001",
     char_start |-> 14, char_end |-> 18, matched_text |-> <<"must">>,
     captures |-> << <<"keyword", <<"must">> >> >>,
     metadata |-> HardRequirement],
    [op_type |-> "CAUSE", pattern_id |-> "CAUSE_BECAUSE_001",
     char_start |-> 30, char_end |-> 37, matched_text |-> <<"because">>,
     captures |-> << <<"keyword", <<"because">> >> >>,
     metadata |-> NoMetadata],
    [op_type |-> "DEF", pattern_id |-> "DEF_TERM_MEANS_001",
     char_start |-> 40, char_end |-> 50, matched_text |-> <<"data", "means">>,
     captures |-> << <<"term", <<"data">> >> >>,
     metadata |-> NoMetadata],
    [op_type |-> "SCOPE", pattern_id |-> "SCOPE_WITHIN_TIME_001",
     char_start |-> 1200, char_end |-> 1214, matched_text |-> <<"within", "30", "days">>,
     captures |-> << <<"scope_phrase", <<"within", "30", "days">> >> >>,
     metadata |-> NoMetadata] }

InitEngine ==
    /\ LedgerIdle
    /\ IngestIdle
    /\ PageIdle
    /\ DetectorIdle
    /\ EngineIdle

\* A caller puts one more match at the end of its list.
AddMatch ==
    /\ Len(matchList) < MaxMatches
    /\ \E m \in MatchPool : matchList' = Append(matchList, m)
    /\ obligations' = NoObligations
    /\ UNCHANGED <<ledgerVars, detectorVars, ingestVars, pageVars>>

\* instantiateObligations(matchList)
Instantiate ==
    /\ obligations = NoObligations
    /\ obligations' = instantiateObligations(matchList)
    /\ UNCHANGED matchList
    /\ UNCHANGED <<ledgerVars, detectorVars, ingestVars, pageVars>>

NextEngine ==
    \/ AddMatch
    \/ Instantiate

SpecEngine == InitEngine /\ [][NextEngine]_vars

----------------------------------------------------------------------------
(* Callers that hand over matches of more kinds *)

NegatedRequirement == << <<"strength", "hard">>, <<"negated", "true">> >>

\* Further matches, as in "... must not ... according to ... for minors ...
\* unless ... hereinafter ...".
MoreMatches == {
    [op_type |-> "REQ", pattern_id |-> "REQ_MUST_NOT_001",
     char_start |-> 60, char_end |-> 68, matched_text |-> <<"must", "not">>,
     captures |-> << <<"keyword", <<"must", "not">> >> >>,
     metadata |-> NegatedRequirement],
    [op_type |-> "ANCHOR", pattern_id |-> "ANCHOR_ACCORDING_TO_001",
     char_start |-> 70, char_end |-> 82, matched_text |-> <<"according", "to">>,
     captures |-> << <<"anchor_phrase", <<"according", "to">> >> >>,
     metadata |-> NoMetadata],
    [op_type |-> "SCOPE", pattern_id |-> "SCOPE_FOR_MINORS_001",
     char_start |-> 90, char_end |-> 100, matched_text |-> <<"for", "minors">>,
     captures |-> << <<"scope_phrase", <<"for", "minors">> >> >>,
     metadata |-> NoMetadata],
    [op_type |-> "SCOPE", pattern_id |-> "SCOPE_UNLESS_001",
     char_start |-> 110, char_end |-> 116, matched_text |-> <<"unless">>,
     captures |-> << <<"scope_phrase", <<"unless">> >> >>,
     metadata |-> NoMetadata],
    \* a match of a registry's own DEF pattern, which captures nothing
    [op_type |-> "DEF", pattern_id |-> "DEF_HEREINAFTER_001",
     char_start |-> 120, char_end |-> 131, matched_text |-> <<"hereinafter">>,
     captures |-> <<>>,
     metadata |-> NoMetadata] }

WidePool == MatchPool \cup MoreMatches

\* A caller puts one more match, of any kind, at the end of its list.
AddAnyMatch ==
    /\ Len(matchList) < MaxMatches
    /\ \E m \in WidePool : matchList' = Append(matchList, m)
    /\ obligations' = NoObligations
    /\ UNCHANGED <<ledgerVars, detectorVars, ingestVars, pageVars>>

NextEngineWide ==
    \/ AddAnyMatch
    \/ Instantiate

SpecEngineWide == InitEngine /\ [][NextEngineWide]_vars

----------------------------------------------------------------------------
(* Callers whose matches lie around the edge of the search window *)

WindowSlack == 3    \* starts tried on either side of the edge of the window

\* A match of REQ_MUST_001 in the middle of a long text.
FarRequirement ==
    [op_type |-> "REQ", pattern_id |-> "REQ_MUST_001",
     char_start |-> 600, char_end |-> 604, matched_text |-> <<"must">>,
     captures |-> << <<"keyword", <<"must">> >> >>,
     metadata |-> HardRequirement]

\* A match of DEF_TERM_MEANS_001 that starts at s; its span has even length.
DefinitionAt(s) ==
    [op_type |-> "DEF", pattern_id |-> "DEF_TERM_MEANS_001",
     char_start |-> s, char_end |-> s + 10, matched_text |-> <<"data", "means">>,
     captures |-> << <<"term", <<"data">> >> >>,
     metadata |-> NoMetadata]

\* A match of SCOPE_FOR_USERS_001 that starts at s; its span has odd length,
\* so its midpoint is a half.
ActorScopeAt(s) ==
    [op_type |-> "SCOPE", pattern_id |-> "SCOPE_FOR_USERS_001",
     char_start |-> s, char_end |-> s + 13, matched_text |-> <<"for", "all", "users">>,
     captures |-> << <<"scope_phrase", <<"for", "all", "users">> >> >>,
     metadata |-> NoMetadata]

\* Starts that put the other match about FIELD_SEARCH_WINDOW before or after
\* the requirement.
EdgeStarts ==
    LET before == FarRequirement.char_start + 2 - FIELD_SEARCH_WINDOW - 5
        after == FarRequirement.char_start + 2 + FIELD_SEARCH_WINDOW - 5
    IN ((before - WindowSlack)..(before + WindowSlack))
         \cup ((after - WindowSlack)..(after + WindowSlack))

EdgeMatches == {DefinitionAt(s) : s \in EdgeStarts} \cup {ActorScopeAt(s) : s \in EdgeStarts}

InitWindow ==
    /\ LedgerIdle
    /\ IngestIdle
    /\ PageIdle
    /\ DetectorIdle
    /\ \E m \in EdgeMatches : matchList \in {<<FarRequirement, m>>, <<m, FarRequirement>>}
    /\ obligations = NoObligations

NextWindow == Instantiate

SpecWindow == InitWindow /\ [][NextWindow]_vars

----------------------------------------------------------------------------
(* Callers with the matches of a long document *)

MaxPerType == 1001  \* requirements of the longest document handed over
ShortRuns == 12     \* the short documents have up to this many requirements

\* The k-th requirement of a long document, one per page.
RequirementOnPage(k) ==
    [op_type |-> "REQ", pattern_id |-> "REQ_MUST_001",
     char_start |-> 2000 * k, char_end |-> 2000 * k + 4, matched_text |-> <<"must">>,
     captures |-> << <<"keyword", <<"must">> >> >>,
     metadata |-> HardRequirement]

ManyRequirements(n) == [k \in 1..n |-> RequirementOnPage(k)]

\* What a document may end in: nothing, a definition, a definition and one
\* more requirement, or a justification and a definition.
Endings(n) ==
    LET def == DefinitionAt(2000 * n + 40)
        cause == [op_type |-> "CAUSE", pattern_id |-> "CAUSE_BECAUSE_001",
                  char_start |-> 2000 * n + 30, char_end |-> 2000 * n + 37,
                  matched_text |-> <<"because">>,
                  captures |-> << <<"keyword", <<"because">> >> >>,
                  metadata |-> NoMetadata]
    IN {<<>>, <<def>>, <<def, RequirementOnPage(n + 1)>>, <<cause, def>>}

DocumentSizes == (0..ShortRuns) \cup {MaxPerType - 1}

InitMany ==
    /\ LedgerIdle
    /\ IngestIdle
    /\ PageIdle
    /\ DetectorIdle
    /\ \E n \in DocumentSizes : \E tail \in Endings(n) :
          matchList = ManyRequirements(n) \o tail
    /\ obligations = NoObligations

NextMany == Instantiate

SpecMany == InitMany /\ [][NextMany]_vars

----------------------------------------------------------------------------
(* PDF ingestion (src/unnamed/part_008).  A text is kept as its length and   *)
(* whether it is white space only; a PDF as its bytes and what pdfjs-dist    *)
(* makes of them.                                                            *)

MaxPages == 2       \* pages of the PDFs handed to ingestPDF

PDF_INGEST_VERSION == "0.2.0"

DEFAULT_CONFIG ==
    [version |-> PDF_INGEST_VERSION,
     reject_encrypted |-> TRUE,
     reject_scanned |-> TRUE,
     min_chars_per_page |-> 100]

\* sha256HashBytes(bytes)
sha256HashBytes(bytes) == sha256(bytes)

EmptyText == [length |-> 0, blank |-> TRUE]

\* What textContent.items.map(item => item.str || '').join(' ') may be for a
\* page: nothing, white space only (items without text), or text of a length
\* about min_chars_per_page.
PageTexts ==
    {EmptyText, [length |-> 120, blank |-> TRUE]}
      \cup {[length |-> n, blank |-> FALSE] : n \in {1, 99, 100, 101}}

RECURSIVE SumLengths(_, _)
SumLengths(pageTexts, k) ==
    IF k = 0 THEN 0 ELSE SumLengths(pageTexts, k - 1) + pageTexts[k].length

\* pageTexts.join('\n\n')
JoinPages(pageTexts) ==
    [length |-> SumLengths(pageTexts, Len(pageTexts)) + 2 * (Len(pageTexts) - 1),
     blank |-> \A k \in 1..Len(pageTexts) : pageTexts[k].blank]

\* rawText.trim().length === 0
TrimmedEmpty(rawText) == rawText.blank

\* The return value built for a rejection.
Rejection(cfg, pdfHash, code, pageCount, isEncrypted, isScanned) ==
    [outcome |-> "returned",
     version |-> cfg.version,
     success |-> FALSE,
     error |-> code,
     page_count |-> pageCount,
     raw_text |-> EmptyText,
     pdf_hash |-> pdfHash,
     metadata |-> [is_encrypted |-> isEncrypted, is_scanned |-> isScanned]]

\* ingestPDF(pdfBytes, config) for the file f, override being DEFAULT_CONFIG
\* with the members of config put over it; error is "" where the result has
\* no error member.
ingestPDF(f, override) ==
    LET cfg == override
        pdfHash == sha256HashBytes(f.bytes)
    IN IF f.loading = "loaded"
       THEN LET pageCount == Len(f.pages)
                totalChars == SumLengths(f.pages, pageCount)
                rawText == JoinPages(f.pages)
                \* totalChars / pageCount < cfg.min_chars_per_page
                isScanned == totalChars < cfg.min_chars_per_page * pageCount
            IN IF cfg.reject_scanned /\ isScanned
               THEN Rejection(cfg, pdfHash, "SCANNED_SUSPECT", pageCount, FALSE, TRUE)
               ELSE IF TrimmedEmpty(rawText)
               THEN Rejection(cfg, pdfHash, "EMPTY", pageCount, FALSE, FALSE)
               ELSE [outcome |-> "returned",
                     version |-> cfg.version,
                     success |-> TRUE,
                     error |-> "",
                     page_count |-> pageCount,
                     raw_text |-> rawText,
                     pdf_hash |-> pdfHash,
                     metadata |-> [is_encrypted |-> FALSE, is_scanned |-> FALSE]]
       ELSE IF f.loading = "password"
       THEN Rejection(cfg, pdfHash, "ENCRYPTED", 0, TRUE, FALSE)
       ELSE Rejection(cfg, pdfHash, "PARSE_ERROR", 0, FALSE, FALSE)

\* The files: two byte strings, each read by pdfjs-dist as a document of some
\* pages, refused with a PasswordException, or refused with another error.
PageLists == UNION {[1..n -> PageTexts] : n \in 1..MaxPages}

PdfFiles ==
    {[bytes |-> b, loading |-> "loaded", pages |-> ps] :
        b \in {<<37, 80>>, <<37, 80, 68>>}, ps \in PageLists}
      \cup {[bytes |-> b, loading |-> l, pages |-> <<>>] :
              b \in {<<37, 80>>, <<37, 80, 68>>}, l \in {"password", "invalid"}}

InitIngest ==
    /\ LedgerIdle
    /\ DetectorIdle
    /\ EngineIdle
    /\ PageIdle
    /\ pdf \in PdfFiles
    /\ ingested = NoIngest

\* await ingestPDF(pdf), with no config override.
Ingest ==
    /\ ingested = NoIngest
    /\ ingested' = ingestPDF(pdf, DEFAULT_CONFIG)
    /\ UNCHANGED pdf
    /\ UNCHANGED <<ledgerVars, detectorVars, engineVars, pageVars>>

NextIngest == Ingest

SpecIngest == InitIngest /\ [][NextIngest]_vars

----------------------------------------------------------------------------
(* The browser page: src/src/pdf_canonicalizer_v0_2.ts with the library of *)
(* src/unnamed/part_011.  A handler runs to its next await, or to its end; *)
(* a suspended handler is a task that resumes in a later step.             *)

MaxEvents == 5      \* user events per session
MaxTasks == 2       \* handlers suspended at the same time

Spaces(n) == [i \in 1..n |-> 32]

\* The text of a KNOWN_SAMPLES button: "mn".
SampleText == <<109, 110>>

\* What the user may leave in the text area: nothing, or "m".
TypedTexts == {<<>>, <<109>>}

\* The text files the user may pick: one, with "m".
FileContents == {<<109>>}

\* The PDF files the user may pick, of one page each: one whose page reads
\* "m" followed by 100 spaces, and one whose page reads "m" only.
PagePdfs == {[bytes |-> <<1>>, pageText |-> <<109>> \o Spaces(100)],
             [bytes |-> <<2>>, pageText |-> <<109>>]}

MIN_CHARS_PER_PAGE == 100

\* sha256Hash(data): the first 16 hex digits of the SHA-256 digest.
sha256Hash(data) == sha256(data)

RECURSIVE TrimStart(_)
TrimStart(t) == IF t # <<>> /\ Head(t) = 32 THEN TrimStart(Tail(t)) ELSE t

RECURSIVE TrimEnd(_)
TrimEnd(t) == IF t # <<>> /\ t[Len(t)] = 32 THEN TrimEnd(SubSeq(t, 1, Len(t) - 1)) ELSE t

\* String.prototype.trim, for texts whose only white space is the space.
Trim(t) == TrimStart(TrimEnd(t))

\* text.replace(/[ \t]+/g, ' '): of a run of spaces the first is kept.
CollapseWhitespace(t) ==
    LET kept == SelectSeq([i \in 1..Len(t) |-> i],
                          LAMBDA i : ~(t[i] = 32 /\ i > 1 /\ t[i - 1] = 32))
    IN [j \in 1..Len(kept) |-> t[kept[j]]]

\* canonicalizeText(rawText) when its sha256Hash has resolved.  For a text of
\* one line without digits the rules that change it are
\* CANON_COLLAPSE_WHITESPACE_001, CANON_TRIM_LINES_001 and
\* CANON_TRIM_DOCUMENT_001.
canonicalizeText(rawText) ==
    LET canonical == Trim(Trim(CollapseWhitespace(rawText)))
    IN [original_length |-> Len(rawText),
        canonical_length |-> Len(canonical),
        canonical_text |-> canonical,
        canonical_hash |-> sha256Hash(canonical)]

\* ingestPDF(pdfArrayBuffer) of the browser library, for a file of one page
\* that pdf.js reads without an exception.
ingestPDFInBrowser(file) ==
    LET pdfHash == sha256Hash(file.bytes)
        pageCount == 1
        totalChars == Len(file.pageText)
        rawText == file.pageText
    IN IF totalChars < MIN_CHARS_PER_PAGE * pageCount
       THEN [success |-> FALSE, code |-> "SCANNED_SUSPECT", page_count |-> pageCount,
             raw_text |-> <<>>, pdf_hash |-> pdfHash]
       ELSE IF Len(Trim(rawText)) = 0
       THEN [success |-> FALSE, code |-> "EMPTY", page_count |-> pageCount,
             raw_text |-> <<>>, pdf_hash |-> pdfHash]
       ELSE [success |-> TRUE, code |-> "", page_count |-> pageCount,
             raw_text |-> rawText, pdf_hash |-> pdfHash]

\* detectOperators(text): every lastIndex is reset, the matches are sorted.
detectOperators(t) == detect(DefinitionOrder, t, [p \in PatternIndexes |-> 0], "icu")

\* JSON.stringify(currentDetection), as the numbers the digest is taken of.
StringifyDetection(d) ==
    IF d = null THEN <<110, 117, 108, 108>>
    ELSE d.input_hash
           \o ConcatAll([i \in 1..Len(d.matches) |->
                            d.matches[i].pattern_id
                              \o <<d.matches[i].char_start, d.matches[i].char_end>>],
                        1, Len(d.matches))

\* JSON.stringify(currentObligations), as the numbers the digest is taken of.
StringifyObligations(o) ==
    IF o = null THEN <<110, 117, 108, 108>>
    ELSE <<o.obligation_count>>
           \o ConcatAll([i \in 1..Len(o.obligations) |->
                            <<o.obligations[i].trigger_char_start,
                              o.obligations[i].trigger_char_end,
                              IF o.obligations[i].status = "OPEN" THEN 1 ELSE 2>>],
                        1, Len(o.obligations))

\* createTransactionRecord(options) of the browser library when its
\* sha256Hash has resolved; id is the pair drawn for generateTransactionId()
\* and new Date().toISOString().
createTransactionRecordInBrowser(options, id) ==
    LET contentToHash ==
            <<2, TRANSACTION_VERSION, id[1], id[2], 3>>
              \o <<100>> \o options.inputHash \o <<options.inputLength, options.inputFormat>>
              \o <<101, options.detectionHash, options.obligationsHash>>
              \o <<102, 4, 2>>
              \o <<103, options.previousTransactionHash>>
    IN [ddrp_version |-> 2,
        transaction_version |-> TRANSACTION_VERSION,
        transaction_id |-> id[1],
        timestamp_local |-> id[2],
        timezone |-> 3,
        input |-> [input_hash |-> options.inputHash,
                   input_length |-> options.inputLength,
                   input_format |-> options.inputFormat],
        outputs |-> [detection_hash |-> options.detectionHash,
                     obligations_hash |-> options.obligationsHash],
        environment |-> [browser |-> 4, ddrp_version |-> 2],
        chain |-> [previous_transaction_hash |-> options.previousTransactionHash,
                   transaction_hash |-> sha256Hash(contentToHash)],
        disclaimer |-> DISCLAIMER]

createTextProvenance(canonicalHash, inputHash) ==
    [input_format |-> "text", canonical_hash |-> canonicalHash, input_hash |-> inputHash]

createPDFProvenance(pdfHash, canonicalHash, inputHash) ==
    [input_format |-> "pdf", pdf_hash |-> pdfHash, canonical_hash |-> canonicalHash,
     input_hash |-> inputHash]

wrapWithProtocol(data, provenance) == [provenance |-> provenance, data |-> data]

\* runReviewBtn.disabled as updateReviewButtonState sets it.
ReviewButtonDisabled(runId, value, source, canonResult) ==
    IF runId = 0 THEN TRUE
    ELSE ~(Len(Trim(value)) > 0 \/ (source = "pdf" /\ canonResult # null))

\* A handler suspended at pc, with the values it holds.
Task(kind, pc, locals) ==
    [kind |-> kind, pc |-> pc, run |-> currentRunId, locals |-> locals]

Remaining(s, i) == SubSeq(s, 1, i - 1) \o SubSeq(s, i + 1, Len(s))

\* The page as init() leaves it; the check box is as the user found it.
InitPage ==
    /\ LedgerIdle
    /\ DetectorIdle
    /\ EngineIdle
    /\ IngestIdle
    /\ PageLoaded
    /\ generateTransaction \in BOOLEAN

\* Variables of the page that clearResults() does not touch are named in
\* each action; clearResults() sets currentDetection, currentObligations and
\* currentTransactionRecord to null and hides the export section.

\* startNewRun(): the click on "Start New Run".
StartNewRun ==
    /\ events < MaxEvents
    /\ events' = events + 1
    /\ currentRunId' = currentRunId + 1
    /\ currentDetection' = null
    /\ currentObligations' = null
    /\ currentPDFResult' = null
    /\ currentCanonResult' = null
    /\ currentTransactionRecord' = null
    /\ inputSource' = "text"
    /\ lastTransactionHash' = GENESIS_HASH
    /\ documentInput' = <<>>
    /\ exportHidden' = TRUE
    /\ inputDisabled' = FALSE
    /\ runReviewDisabled' = TRUE
    /\ reviewsStarted' = 0
    /\ UNCHANGED <<generateTransaction, tasks, alerted, issued, bundle>>
    /\ UNCHANGED <<ledgerVars, detectorVars, engineVars, ingestVars>>

\* The input listener of documentInput: the user has changed the text.
TypeText(value) ==
    /\ events < MaxEvents
    /\ ~inputDisabled
    /\ value # documentInput
    /\ events' = events + 1
    /\ documentInput' = value
    /\ runReviewDisabled' =
          ReviewButtonDisabled(currentRunId, value, inputSource, currentCanonResult)
    /\ UNCHANGED <<currentRunId, currentDetection, currentObligations, currentPDFResult,
                   currentCanonResult, currentTransactionRecord, inputSource,
                   lastTransactionHash, inputDisabled, exportHidden, generateTransaction,
                   tasks, alerted, issued, bundle, reviewsStarted>>
    /\ UNCHANGED <<ledgerVars, detectorVars, engineVars, ingestVars>>

\* What loadSample and reader.onload do with a text.
TakeText(value) ==
    /\ documentInput' = value
    /\ inputSource' = "text"
    /\ currentPDFResult' = null
    /\ currentCanonResult' = null
    /\ currentDetection' = null
    /\ currentObligations' = null
    /\ currentTransactionRecord' = null
    /\ exportHidden' = TRUE
    /\ runReviewDisabled' = ReviewButtonDisabled(currentRunId, value, "text", null)

\* loadSample(name, text): the click on a sample button, which is never
\* disabled.
LoadSample ==
    /\ events < MaxEvents
    /\ events' = events + 1
    /\ IF currentRunId = 0
       THEN /\ alerted' = "Please start a new run first."
            /\ UNCHANGED <<documentInput, inputSource, currentPDFResult, currentCanonResult,
                           currentDetection, currentObligations, currentTransactionRecord,
                           exportHidden, runReviewDisabled>>
       ELSE /\ TakeText(SampleText)
            /\ UNCHANGED alerted
    /\ UNCHANGED <<currentRunId, lastTransactionHash, inputDisabled, generateTransaction,
                   tasks, issued, bundle, reviewsStarted>>
    /\ UNCHANGED <<ledgerVars, detectorVars, engineVars, ingestVars>>

\* handleFileLoad(e): the user has picked a text file; reader.readAsText.
HandleFileLoad(content) ==
    /\ events < MaxEvents
    /\ Len(tasks) < MaxTasks
    /\ ~inputDisabled
    /\ events' = events + 1
    /\ IF currentRunId = 0
       THEN /\ alerted' = "Please start a new run first."
            /\ UNCHANGED tasks
       ELSE /\ tasks' = Append(tasks, Task("handleFileLoad", "onload", [content |-> content]))
            /\ UNCHANGED alerted
    /\ UNCHANGED <<currentRunId, currentDetection, currentObligations, currentPDFResult,
                   currentCanonResult, currentTransactionRecord, inputSource,
                   lastTransactionHash, documentInput, inputDisabled, runReviewDisabled,
                   exportHidden, generateTransaction, issued, bundle, reviewsStarted>>
    /\ UNCHANGED <<ledgerVars, detectorVars, engineVars, ingestVars>>

\* reader.onload of the i-th task.
FileOnload(i) ==
    /\ tasks[i].kind = "handleFileLoad"
    /\ TakeText(tasks[i].locals.content)
    /\ tasks' = Remaining(tasks, i)
    /\ UNCHANGED <<currentRunId, lastTransactionHash, inputDisabled, generateTransaction,
                   alerted, issued, bundle, events, reviewsStarted>>
    /\ UNCHANGED <<ledgerVars, detectorVars, engineVars, ingestVars>>

\* handlePDFLoad(e) to its awaits of file.arrayBuffer() and ingestPDF.
HandlePDFLoad(file) ==
    /\ events < MaxEvents
    /\ Len(tasks) < MaxTasks
    /\ ~inputDisabled
    /\ events' = events + 1
    /\ IF currentRunId = 0
       THEN /\ alerted' = "Please start a new run first."
            /\ UNCHANGED tasks
       ELSE /\ tasks' = Append(tasks, Task("handlePDFLoad", "ingestPDF", [file |-> file]))
            /\ UNCHANGED alerted
    /\ UNCHANGED <<currentRunId, currentDetection, currentObligations, currentPDFResult,
                   currentCanonResult, currentTransactionRecord, inputSource,
                   lastTransactionHash, documentInput, inputDisabled, runReviewDisabled,
                   exportHidden, generateTransaction, issued, bundle, reviewsStarted>>
    /\ UNCHANGED <<ledgerVars, detectorVars, engineVars, ingestVars>>

\* handlePDFLoad from the result of ingestPDF to the await of
\* canonicalizeText, or to its return after displayPDFError.
PdfIngested(i) ==
    /\ tasks[i].kind = "handlePDFLoad"
    /\ tasks[i].pc = "ingestPDF"
    /\ LET result == ingestPDFInBrowser(tasks[i].locals.file)
       IN /\ currentPDFResult' = result
          /\ IF ~result.success
             THEN /\ alerted' = result.code
                  /\ tasks' = Remaining(tasks, i)
             ELSE /\ tasks' = [tasks EXCEPT ![i].pc = "canonicalizeText",
                                            ![i].locals = [canon |-> canonicalizeText(result.raw_text)]]
                  /\ UNCHANGED alerted
    /\ UNCHANGED <<currentRunId, currentDetection, currentObligations, currentCanonResult,
                   currentTransactionRecord, inputSource, lastTransactionHash,
                   documentInput, inputDisabled, runReviewDisabled, exportHidden,
                   generateTransaction, issued, bundle, events, reviewsStarted>>
    /\ UNCHANGED <<ledgerVars, detectorVars, engineVars, ingestVars>>

\* handlePDFLoad from the result of canonicalizeText to its end.
PdfCanonicalized(i) ==
    /\ tasks[i].kind = "handlePDFLoad"
    /\ tasks[i].pc = "canonicalizeText"
    /\ currentCanonResult' = tasks[i].locals.canon
    /\ inputSource' = "pdf"
    /\ currentDetection' = null
    /\ currentObligations' = null
    /\ currentTransactionRecord' = null
    /\ exportHidden' = TRUE
    /\ runReviewDisabled' =
          ReviewButtonDisabled(currentRunId, documentInput, "pdf", tasks[i].locals.canon)
    /\ tasks' = Remaining(tasks, i)
    /\ UNCHANGED <<currentRunId, currentPDFResult, lastTransactionHash, documentInput,
                   inputDisabled, generateTransaction, alerted, issued, bundle, events,
                   reviewsStarted>>
    /\ UNCHANGED <<ledgerVars, detectorVars, engineVars, ingestVars>>

\* runReview() to its first await: the click on "Run Review".
RunReview ==
    /\ events < MaxEvents
    /\ Len(tasks) < MaxTasks
    /\ ~runReviewDisabled
    /\ events' = events + 1
    /\ LET fromPdf == inputSource = "pdf" /\ currentCanonResult # null
           textToAnalyze == IF fromPdf THEN currentCanonResult.canonical_text
                            ELSE documentInput
           inputLength == IF fromPdf THEN currentCanonResult.canonical_length
                          ELSE Len(textToAnalyze)
           detection == detectOperators(textToAnalyze)
       IN IF currentRunId = 0 \/ Len(Trim(textToAnalyze)) = 0
          THEN /\ alerted' = (IF currentRunId = 0 THEN "Please start a new run first."
                              ELSE "No document text provided.")
               /\ UNCHANGED <<currentDetection, currentObligations, tasks, reviewsStarted>>
          ELSE /\ currentDetection' = detection
               /\ currentObligations' = instantiateObligations(detection.matches)
               /\ reviewsStarted' = reviewsStarted + 1
               /\ tasks' = Append(tasks,
                     Task("runReview", "detectionHash",
                          [review |-> reviewsStarted + 1,
                           inputLength |-> inputLength,
                           detectionHash |-> sha256Hash(StringifyDetection(detection))]))
               /\ UNCHANGED alerted
    /\ UNCHANGED <<currentRunId, currentPDFResult, currentCanonResult,
                   currentTransactionRecord, inputSource, lastTransactionHash,
                   documentInput, inputDisabled, runReviewDisabled, exportHidden,
                   generateTransaction, issued, bundle>>
    /\ UNCHANGED <<ledgerVars, detectorVars, engineVars, ingestVars>>

\* runReview from the detection hash to the await of the obligations hash:
\* JSON.stringify(currentObligations) reads the variable as it is now.
ReviewDetectionHashed(i) ==
    /\ tasks[i].kind = "runReview"
    /\ tasks[i].pc = "detectionHash"
    /\ tasks' = [tasks EXCEPT
          ![i].pc = "obligationsHash",
          ![i].locals = [review |-> tasks[i].locals.review,
                         inputLength |-> tasks[i].locals.inputLength,
                         detectionHash |-> tasks[i].locals.detectionHash,
                         obligationsHash |-> sha256Hash(StringifyObligations(currentObligations))]]
    /\ UNCHANGED <<currentRunId, currentDetection, currentObligations, currentPDFResult,
                   currentCanonResult, currentTransactionRecord, inputSource,
                   lastTransactionHash, documentInput, inputDisabled, runReviewDisabled,
                   exportHidden, generateTransaction, alerted, issued, bundle, events,
                   reviewsStarted>>
    /\ UNCHANGED <<ledgerVars, detectorVars, engineVars, ingestVars>>

\* The rendering at the end of runReview: renderSummary reads
\* currentDetection.matches, a TypeError when the variable is null, and the
\* export section is shown after the rendering.
ExportHiddenAfterRender == IF currentDetection = null THEN exportHidden ELSE FALSE

\* runReview from the obligations hash: with the box checked to the await in
\* createTransactionRecord, whose options read currentDetection, inputSource
\* and lastTransactionHash as they are now (a TypeError when currentDetection
\* is null); without it to the end.
ReviewObligationsHashed(i) ==
    /\ tasks[i].kind = "runReview"
    /\ tasks[i].pc = "obligationsHash"
    /\ IF generateTransaction
       THEN /\ IF currentDetection = null
               THEN tasks' = Remaining(tasks, i)
               ELSE tasks' = [tasks EXCEPT
                      ![i].pc = "transactionHash",
                      ![i].locals =
                          [review |-> tasks[i].locals.review,
                           record |-> createTransactionRecordInBrowser(
                              [inputHash |-> currentDetection.input_hash,
                               inputLength |-> tasks[i].locals.inputLength,
                               inputFormat |-> IF inputSource = "pdf" THEN 2 ELSE 1,
                               detectionHash |-> tasks[i].locals.detectionHash,
                               obligationsHash |-> tasks[i].locals.obligationsHash,
                               previousTransactionHash |-> lastTransactionHash],
                              <<50 + 10 * tasks[i].run + tasks[i].locals.review,
                                60 + 10 * tasks[i].run + tasks[i].locals.review>>)]]
            /\ UNCHANGED <<currentTransactionRecord, exportHidden>>
       ELSE /\ currentTransactionRecord' = null
            /\ exportHidden' = ExportHiddenAfterRender
            /\ tasks' = Remaining(tasks, i)
    /\ UNCHANGED <<currentRunId, currentDetection, currentObligations, currentPDFResult,
                   currentCanonResult, inputSource, lastTransactionHash, documentInput,
                   inputDisabled, runReviewDisabled, generateTransaction, alerted, issued,
                   bundle, events, reviewsStarted>>
    /\ UNCHANGED <<ledgerVars, detectorVars, engineVars, ingestVars>>

\* runReview from the record of createTransactionRecord to its end.
ReviewRecordHashed(i) ==
    /\ tasks[i].kind = "runReview"
    /\ tasks[i].pc = "transactionHash"
    /\ currentTransactionRecord' = tasks[i].locals.record
    /\ lastTransactionHash' = tasks[i].locals.record.chain.transaction_hash
    /\ issued' = Append(issued, [run |-> tasks[i].run,
                                 review |-> tasks[i].locals.review,
                                 stored |-> currentRunId,
                                 record |-> tasks[i].locals.record])
    /\ exportHidden' = ExportHiddenAfterRender
    /\ tasks' = Remaining(tasks, i)
    /\ UNCHANGED <<currentRunId, currentDetection, currentObligations, currentPDFResult,
                   currentCanonResult, inputSource, documentInput, inputDisabled,
                   runReviewDisabled, generateTransaction, alerted, bundle, events,
                   reviewsStarted>>
    /\ UNCHANGED <<ledgerVars, detectorVars, engineVars, ingestVars>>

\* The bundle exportBundle hands to downloadJson.
BundleWith(provenance) ==
    wrapWithProtocol([run_id |-> currentRunId,
                      detection |-> currentDetection,
                      obligations |-> currentObligations,
                      transaction_record |-> currentTransactionRecord],
                     provenance)

\* exportBundle(): the click on "Export Bundle", to its end for a PDF, to the
\* await of sha256Hash(documentInput.value) otherwise.
ExportBundle ==
    /\ events < MaxEvents
    /\ Len(tasks) < MaxTasks
    /\ ~exportHidden
    /\ events' = events + 1
    /\ IF currentDetection = null \/ currentObligations = null
       THEN /\ alerted' = "No results to export. Run a review first."
            /\ UNCHANGED <<tasks, bundle>>
       ELSE IF inputSource = "pdf" /\ currentPDFResult # null /\ currentCanonResult # null
       THEN /\ bundle' = BundleWith(createPDFProvenance(currentPDFResult.pdf_hash,
                                                        currentCanonResult.canonical_hash,
                                                        currentDetection.input_hash))
            /\ UNCHANGED <<tasks, alerted>>
       ELSE /\ tasks' = Append(tasks, Task("exportBundle", "textHash",
                                           [textHash |-> sha256Hash(documentInput)]))
            /\ UNCHANGED <<bundle, alerted>>
    /\ UNCHANGED <<currentRunId, currentDetection, currentObligations, currentPDFResult,
                   currentCanonResult, currentTransactionRecord, inputSource,
                   lastTransactionHash, documentInput, inputDisabled, runReviewDisabled,
                   exportHidden, generateTransaction, issued, reviewsStarted>>
    /\ UNCHANGED <<ledgerVars, detectorVars, engineVars, ingestVars>>

\* exportBundle from the text hash to its end: currentDetection.input_hash
\* is a TypeError when the variable is null.
ExportTextHashed(i) ==
    /\ tasks[i].kind = "exportBundle"
    /\ IF currentDetection = null
       THEN UNCHANGED bundle
       ELSE bundle' = BundleWith(createTextProvenance(tasks[i].locals.textHash,
                                                      currentDetection.input_hash))
    /\ tasks' = Remaining(tasks, i)
    /\ UNCHANGED <<currentRunId, currentDetection, currentObligations, currentPDFResult,
                   currentCanonResult, currentTransactionRecord, inputSource,
                   lastTransactionHash, documentInput, inputDisabled, runReviewDisabled,
                   exportHidden, generateTransaction, alerted, issued, events,
                   reviewsStarted>>
    /\ UNCHANGED <<ledgerVars, detectorVars, engineVars, ingestVars>>

NextPage ==
    \/ StartNewRun
    \/ \E value \in TypedTexts : TypeText(value)
    \/ LoadSample
    \/ \E content \in FileContents : HandleFileLoad(content)
    \/ \E file \in PagePdfs : HandlePDFLoad(file)
    \/ RunReview
    \/ ExportBundle
    \/ \E i \in 1..Len(tasks) : FileOnload(i)
    \/ \E i \in 1..Len(tasks) : PdfIngested(i)
    \/ \E i \in 1..Len(tasks) : PdfCanonicalized(i)
    \/ \E i \in 1..Len(tasks) : ReviewDetectionHashed(i)
    \/ \E i \in 1..Len(tasks) : ReviewObligationsHashed(i)
    \/ \E i \in 1..Len(tasks) : ReviewRecordHashed(i)
    \/ \E i \in 1..Len(tasks) : ExportTextHashed(i)

SpecPage == InitPage /\ [][NextPage]_vars

----------------------------------------------------------------------------
(* Notions the claims about the ledger are stated in *)

SeqNumOf(file) == ParseDigits(file.name, 1, 0)

\* The outcome "valid, k records, no error".
ValidChainOf(k) == [outcome |-> "returned", valid |-> TRUE, errors |-> <<>>, count |-> k]

\* The place of the file called name in the order of the file names.
RankOf(d, name) == Cardinality({i \in 1..Len(d) : CodeUnitLess(d[i].name, name)})

\* The stored transaction_hash of the file right before d[i] in the order of
\* the file names, GENESIS_HASH when d[i] is the first.
HashBefore(d, i) ==
    IF \A j \in 1..Len(d) : ~CodeUnitLess(d[j].name, d[i].name) THEN GENESIS_HASH
    ELSE LET j == CHOOSE j \in 1..Len(d) :
                    /\ CodeUnitLess(d[j].name, d[i].name)
                    /\ \A k \in 1..Len(d) :
                          ~(CodeUnitLess(d[j].name, d[k].name)
                            /\ CodeUnitLess(d[k].name, d[i].name))
         IN d[j].record.chain.transaction_hash

ChainBroken(d) ==
    {d[i].name : i \in {j \in 1..Len(d) :
        d[j].record.chain.previous_transaction_hash # HashBefore(d, j)}}

HashMismatched(d) ==
    {d[i].name : i \in {j \in 1..Len(d) :
        hashTransactionContent(d[j].record) # d[j].record.chain.transaction_hash}}

ErrorsOfKind(errors, kind) ==
    {errors[k].file : k \in {n \in 1..Len(errors) : errors[n].error = kind}}

\* r links to the record with the highest sequence number in the directory,
\* or to GENESIS_HASH when there is none.
LinkedToLast(r, exists, d) ==
    IF ~exists \/ Len(d) = 0
    THEN r.chain.previous_transaction_hash = GENESIS_HASH
    ELSE \E i \in 1..Len(d) :
            /\ d[i].record.chain.transaction_hash = r.chain.previous_transaction_hash
            /\ \A j \in 1..Len(d) : SeqNumOf(d[j]) <= SeqNumOf(d[i])

ValueChanged == Len(tampered) = 1 /\ tampered[1].field[2] \notin {"chain", "*"}
ShapeChanged == Len(tampered) = 1 /\ tampered[1].field[2] \in {"chain", "*"}

DuplicatePrevious ==
    \E i, j \in 1..Len(writeLog) :
        /\ i < j
        /\ writeLog[i].record.chain.previous_transaction_hash
             = writeLog[j].record.chain.previous_transaction_hash

DuplicateSequenceNumber ==
    \E i, j \in 1..Len(writeLog) : i < j /\ writeLog[i].name = writeLog[j].name

----------------------------------------------------------------------------
(* Claims *)

\* C1: k appends by a single writer to an empty or missing directory, each
\* record written right after it was created, and then verifyTransactionChain:
\* it returns valid = true, count = k and no errors, for every k.
C1_RoundTrip ==
    (verification.outcome # "none" /\ serial /\ NothingPending /\ tampered = <<>>)
        => verification = ValidChainOf(appended)

\* C2: after one field of one stored record was given another value,
\* verifyTransactionChain returns valid = false with an error that names the
\* changed file or a later one.
C2_TamperEvident ==
    (verification.outcome # "none" /\ ValueChanged)
        => /\ verification.outcome = "returned"
           /\ ~verification.valid
           /\ \E k \in 1..Len(verification.errors) :
                 RankOf(dir, verification.errors[k].file) >= RankOf(dir, tampered[1].name)

\* C2, for the fields hashTransactionContent reads and the stored hash itself:
\* changing any of them is reported at the changed file.
C2_HashedFieldsEvident ==
    (verification.outcome # "none" /\ ValueChanged /\ tampered[1].field[2] # "disclaimer")
        => /\ verification.outcome = "returned"
           /\ ~verification.valid
           /\ \E k \in 1..Len(verification.errors) :
                 verification.errors[k].file = tampered[1].name

\* C3: every writeTransactionRecord stores its record under a sequence number
\* greater than that of every file in the directory, and leaves every file
\* that was there as it was, however many files there are.
C3_NeverReused ==
    [][Len(writeLog') = Len(writeLog) + 1
         => /\ Len(dir') = Len(dir) + 1
            /\ \A i \in 1..Len(dir) :
                  /\ dir'[i] = dir[i]
                  /\ SeqNumOf(dir[i]) < SeqNumOf(dir'[Len(dir')])]_vars

\* C4: the record createTransactionRecord returns has as its previous hash
\* the stored transaction_hash of the last record in sequence order, and
\* GENESIS_HASH when the directory is missing or empty.
C4_ChainLinking ==
    [][\A w \in Writers :
          Len(pending'[w]) = Len(pending[w]) + 1
             => LinkedToLast(pending'[w][Len(pending'[w])], dirExists, dir)]_vars

C5_RaceBreaksChain ==
    /\ ~serial
    /\ DuplicatePrevious
    /\ ~DuplicateSequenceNumber
    /\ verification.outcome = "returned"
    /\ ~verification.valid

\* C6: for a ledger of n readable records, verifyTransactionChain returns
\* count = n, valid = (no errors), one chain-break error for each record whose
\* previous hash is not the stored hash of the file before it, and one
\* hash-mismatch error for each record whose recomputed hash is not its
\* stored hash.
C6_ReportsEveryBreak ==
    verification.outcome # "none"
        => /\ verification.outcome = "returned"
           /\ verification.count = Len(dir)
           /\ verification.valid = (verification.errors = <<>>)
           /\ ErrorsOfKind(verification.errors, "Chain break") = ChainBroken(dir)
           /\ ErrorsOfKind(verification.errors, "Hash mismatch") = HashMismatched(dir)
           /\ Len(verification.errors)
                = Cardinality(ChainBroken(dir)) + Cardinality(HashMismatched(dir))

\* C6, its case: a verification that reported breaks in two files.
C6_TwoBreaksReported ==
    /\ verification.outcome = "returned"
    /\ Len(tampered) = 2
    /\ \E k, n \in 1..Len(verification.errors) :
          verification.errors[k].file # verification.errors[n].file

\* C7: whatever shape tampering leaves a stored file in (a record without
\* chain, a text that is no JSON), verifyTransactionChain returns a summary
\* with valid = false and a non-empty list of errors; it does not throw.
C7_ViolationsAreResults ==
    (verification.outcome # "none" /\ ShapeChanged)
        => /\ verification.outcome = "returned"
           /\ ~verification.valid
           /\ verification.errors # <<>>

----------------------------------------------------------------------------
(* Notions the claims about the detector and the engine are stated in *)

Range(s) == {s[i] : i \in 1..Len(s)}

\* The matches are in the order the specification gives: char_start
\* ascending, pattern_id in code unit (lexicographic) order among equals.
LexicographicallyOrdered(ms) ==
    \A i \in 1..(Len(ms) - 1) :
        \/ ms[i].char_start < ms[i + 1].char_start
        \/ /\ ms[i].char_start = ms[i + 1].char_start
           /\ ~CodeUnitLess(ms[i + 1].pattern_id, ms[i].pattern_id)

SameRegistry(a, b) == config[a.by] = config[b.by]

----------------------------------------------------------------------------
(* Claims about the detector and the engine *)

\* C8: in every result of detect, for any registry and any text, matches is
\* sorted by char_start ascending, and two matches with equal char_start
\* appear with pattern_id in lexicographically non-decreasing order.
C8_OrderingInvariant ==
    detected.outcome = "returned" => LexicographicallyOrdered(detected.detection.matches)

\* C9: detect(text) followed by instantiateObligations returns the same
\* result as any earlier such call with the same registry, whatever texts
\* the same detector or one sharing the pattern objects scanned in between,
\* calls that ended in an error included.
C9_Deterministic ==
    (detected.outcome = "returned" /\ baseline.outcome = "returned"
        /\ SameRegistry(detected, baseline))
    => /\ detected.detection = baseline.detection
       /\ detected.obligations = baseline.obligations

\* C9, its case: a call by one detector found pattern objects with a lastIndex
\* left by a failed call, and returned several matches, the same as the
\* other detector with the same registry had before.
C9_RescannedAfterError ==
    /\ detected.outcome = "returned"
    /\ baseline.outcome = "returned"
    /\ detected.stale
    /\ detected.by # baseline.by
    /\ SameRegistry(detected, baseline)
    /\ Len(detected.detection.matches) >= 2
    /\ detected.obligations.obligation_count >= 1

----------------------------------------------------------------------------
(* Claims about the obligations of a result *)

\* C11: for every obligation returned by instantiateObligations, status is
\* SATISFIED if and only if missing_fields is empty, and OPEN otherwise.
C11_StatusCorrect ==
    obligations.outcome = "returned" =>
        \A i \in 1..Len(obligations.obligations) :
            LET o == obligations.obligations[i]
            IN /\ o.status = "SATISFIED" <=> o.missing_fields = <<>>
               /\ o.status = "OPEN" <=> o.missing_fields # <<>>

\* C11, its case: a result with a SATISFIED obligation and with an OPEN
\* obligation that has one required field present and another one missing.
C11_SatisfiedAndOpen ==
    /\ obligations.outcome = "returned"
    /\ \E i \in 1..Len(obligations.obligations) :
          obligations.obligations[i].status = "SATISFIED"
    /\ \E i \in 1..Len(obligations.obligations) :
          LET o == obligations.obligations[i]
          IN /\ o.status = "OPEN"
             /\ Range(o.present_fields) \cap Range(o.required_fields) # {}

\* Positions of the matches whose operator class triggers an obligation.
TriggerPositions(matches) ==
    {k \in 1..Len(matches) : matches[k].op_type \in {"REQ", "DEF", "CAUSE", "SCOPE"}}

\* The position in the match list of the trigger of the i-th obligation.
TriggerPosition(matches, i) ==
    CHOOSE k \in TriggerPositions(matches) :
        Cardinality({j \in TriggerPositions(matches) : j <= k}) = i

IsNegated(match) == \E i \in 1..Len(match.metadata) : match.metadata[i] = <<"negated", "true">>
IsAffirmed(match) == \E i \in 1..Len(match.metadata) : match.metadata[i] = <<"negated", "false">>

ObligationTypeFor(opType) ==
    CASE opType = "REQ" -> "REQ_APPLICABILITY"
      [] opType = "DEF" -> "DEF_CONSISTENCY"
      [] opType = "CAUSE" -> "CAUSE_SUPPORT"
      [] opType = "SCOPE" -> "SCOPE_BOUNDING"

NoStatusCounted == [SATISFIED |-> 0, OPEN |-> 0, CONTRADICTED |-> 0, AMBIGUOUS |-> 0]

FieldNames == {"what", "who", "where", "when", "why", "scope"}

\* The match testifies to the field: its own evidence has an item for it.
Testifies(match, field) ==
    \E e \in 1..Len(extractFieldsFromMatch(match)) :
        extractFieldsFromMatch(match)[e].field = field

TestimonyOf(match, field) ==
    LET own == extractFieldsFromMatch(match)
    IN own[CHOOSE e \in 1..Len(own) : own[e].field = field]

\* The positions, other than the trigger's, of the matches within the window
\* of the trigger at position t that testify to the field.
OtherWitnesses(matches, t, field) ==
    {k \in 1..Len(matches) :
        k # t /\ Nearby(matches[k], matches[t]) /\ Testifies(matches[k], field)}

\* C14: every obligation has at most one evidence item per field; where the
\* trigger itself testifies to a field the item is the trigger's; otherwise
\* it is the item of the first match, in the order of the input list, among
\* the other matches within the window that testify to the field; and there
\* is no item for a field nobody in reach testifies to.
C14_FirstSeenEvidence ==
    obligations.outcome = "returned" =>
        \A i \in 1..Len(obligations.obligations) : \A f \in FieldNames :
            LET o == obligations.obligations[i]
                t == TriggerPosition(matchList, i)
                items == {e \in 1..Len(o.evidence) : o.evidence[e].field = f}
                others == OtherWitnesses(matchList, t, f)
                first == CHOOSE k \in others : \A j \in others : k <= j
            IN /\ Cardinality(items) <= 1
               /\ Testifies(matchList[t], f) =>
                     \E e \in items : o.evidence[e] = TestimonyOf(matchList[t], f)
               /\ (~Testifies(matchList[t], f) /\ others # {}) =>
                     \E e \in items : o.evidence[e] = TestimonyOf(matchList[first], f)
               /\ (~Testifies(matchList[t], f) /\ others = {}) => items = {}

\* C14, its case: two matches testify to "who" near a REQ trigger, the one
\* later in the text first in the list, and a SCOPE trigger has a
\* neighbour testifying to "scope" listed before it.
C14_ListOrderDecides ==
    /\ obligations.outcome = "returned"
    /\ Len(matchList) = 3
    /\ matchList[1].pattern_id = "SCOPE_FOR_MINORS_001"
    /\ matchList[2].pattern_id = "SCOPE_FOR_USERS_001"
    /\ matchList[3].op_type = "REQ"
    /\ \E e \in 1..Len(obligations.obligations[3].evidence) :
          /\ obligations.obligations[3].evidence[e].field = "who"
          /\ obligations.obligations[3].evidence[e].source_op_id = "SCOPE_FOR_MINORS_001"
    /\ \E e \in 1..Len(obligations.obligations[2].evidence) :
          /\ obligations.obligations[2].evidence[e].field = "scope"
          /\ obligations.obligations[2].evidence[e].source_op_id = "SCOPE_FOR_USERS_001"

\* Twice the distance between the midpoints of two spans.
TwiceMidpointDistance(a, b) ==
    LET d == (a.char_start + a.char_end) - (b.char_start + b.char_end)
    IN IF d < 0 THEN -d ELSE d

\* C15: the evidence of another match is considered for a trigger exactly
\* when |midpoint(match) - midpoint(trigger)| <= 500, whether the match lies
\* before or after the trigger: at distance 500 it binds, at 500.5 it does
\* not.  Here the trigger is a REQ match and the other match the only one
\* that can testify to its field.
C15_InclusiveWindow ==
    (obligations.outcome = "returned" /\ Len(matchList) = 2
       /\ \E k \in 1..2 : matchList[k] = FarRequirement) =>
        LET t == CHOOSE k \in 1..2 : matchList[k] = FarRequirement
            other == matchList[3 - t]
            field == IF other.op_type = "DEF" THEN "what" ELSE "who"
            o == obligations.obligations[t]
        IN /\ o.trigger_op_id = FarRequirement.pattern_id
           /\ Contains(o.present_fields, field)
                <=> TwiceMidpointDistance(other, FarRequirement) <= 1000
           /\ TwiceMidpointDistance(other, FarRequirement) = 1000
                => Contains(o.present_fields, field)
           /\ TwiceMidpointDistance(other, FarRequirement) = 1001
                => Contains(o.missing_fields, field)

\* C15, its case: a definition whose midpoint lies exactly 500 characters
\* before the midpoint of the requirement has given the requirement its
\* "what".
C15_BindsAtExactly500 ==
    /\ obligations.outcome = "returned"
    /\ Len(matchList) = 2
    /\ matchList[2] = FarRequirement
    /\ matchList[1].op_type = "DEF"
    /\ matchList[1].char_end < FarRequirement.char_start
    /\ TwiceMidpointDistance(matchList[1], FarRequirement) = 1000
    /\ Contains(obligations.obligations[2].present_fields, "what")

\* The scope phrases of the matches at hand that target an actor.
ActorPhrases == {<<"for", "all", "users">>, <<"for", "minors">>}

\* The matches of the list, other than the one at position t, whose midpoint
\* is within 500 characters of the midpoint of the match at position t.
InWindowOf(matches, t) ==
    {k \in 1..Len(matches) :
        k # t /\ TwiceMidpointDistance(matches[k], matches[t]) <= 1000}

----------------------------------------------------------------------------
(* Claims about the patterns of a registry *)

\* The registry without the pattern object p: PATTERNS.filter(x => x !== p).
Without(registry, p) == SelectSeq(registry, LAMBDA x : x # p)

\* C19: for the text scanned and every pattern p of the registry R of the
\* detector that scanned it, detect with R minus p reports exactly the
\* matches of detect with R whose pattern_id differs from p's, in the same
\* relative order, and a pattern_count smaller by one.
C19_RemovalRemovesOwnMatches ==
    detected.outcome = "returned" =>
        \A k \in 1..Len(config[detected.by]) :
            LET p == config[detected.by][k]
                smaller == detect(Without(config[detected.by], p), text, lastIndex, collation)
            IN /\ smaller.matches
                    = SelectSeq(detected.detection.matches,
                                LAMBDA m : m.pattern_id # PatternObjects[p].id)
               /\ smaller.pattern_count = detected.detection.pattern_count - 1

\* C19, its case: the detection holds overlapping matches of two patterns,
\* so that each removal leaves matches of the other pattern behind.
C19_TwoPatternsMatched ==
    /\ detected.outcome = "returned"
    /\ \E i, j \in 1..Len(detected.detection.matches) :
          /\ detected.detection.matches[i].pattern_id # detected.detection.matches[j].pattern_id
          /\ detected.detection.matches[i].char_start < detected.detection.matches[j].char_end
          /\ detected.detection.matches[j].char_start < detected.detection.matches[i].char_end

----------------------------------------------------------------------------
(* Claims about obligation ids *)

\* The decimal digits of n, at least three of them.
RECURSIVE ThreeDigits(_)
ThreeDigits(n) ==
    IF n < 1000
    THEN <<48 + (n \div 100), 48 + ((n \div 10) % 10), 48 + (n % 10)>>
    ELSE Append(ThreeDigits(n \div 10) , 48 + (n % 10))

\* How many of the first i obligations have the type of the i-th.
RankInType(obls, i) == Cardinality({j \in 1..i : obls[j].obl_type = obls[i].obl_type})

\* C17: the id of an obligation is formed from its type and a per-type
\* counter that starts at 1 and grows by 1 with each obligation of the type,
\* in match-processing order, zero-padded to 3 digits; the ids of one result
\* are pairwise distinct, also when a type has more than 999 obligations; and
\* the same match list gets the same ids again.
C17_IdsDeterministicAndUnique ==
    obligations.outcome = "returned" =>
        LET obls == obligations.obligations
        IN /\ \A i \in 1..Len(obls) :
                 obls[i].obl_id = <<"OBL", obls[i].obl_type, ThreeDigits(RankInType(obls, i))>>
           /\ Cardinality({obls[i].obl_id : i \in 1..Len(obls)}) = Len(obls)
           /\ instantiateObligations(matchList).obligations = obls

\* C17, its case: a result with more than 999 obligations of one type, the
\* thousandth with a counter of four digits.
C17_ThousandthObligation ==
    /\ obligations.outcome = "returned"
    /\ Len(obligations.obligations) > 1000
    /\ obligations.obligations[1000].obl_type = "REQ_APPLICABILITY"
    /\ obligations.obligations[1000].obl_id = <<"OBL", "REQ_APPLICABILITY", <<49, 48, 48, 48>> >>
    /\ obligations.obligations[1].obl_id = <<"OBL", "REQ_APPLICABILITY", <<48, 48, 49>> >>

----------------------------------------------------------------------------
(* Claims about ill-formed patterns *)

\* The exec at hand returns a match and leaves lastIndex where it was.
MatchesWithoutAdvancing ==
    /\ detected.outcome = "scanning"
    /\ Found # <<>>
    /\ Found[1] + Len(ScanRules[CurrentRule].literal) = lastIndex[CurrentRule]

\* C18: for every text and every registry, a call of detect that has been
\* entered comes to an end, it never hangs; and where a rule matches without
\* advancing, so that its loop would go on for ever, the call fails with an
\* error at that match instead of going on to scan.
C18_DetectEnds ==
    /\ (detected.outcome = "scanning") ~> (detected.outcome \in {"returned", "threw"})
    /\ [][MatchesWithoutAdvancing => detected'.outcome = "threw"]_vars

----------------------------------------------------------------------------
(* Claims about PDF ingestion *)

\* C20: under the default configuration, a PDF from which zero text is
\* extracted is rejected with EMPTY, one that yields text but fewer than 100
\* characters per page on average with SCANNED_SUSPECT, an encrypted one with
\* ENCRYPTED, and any other failure gives PARSE_ERROR; every rejection has
\* success = false, an empty raw_text and the pdf_hash of the bytes; and
\* ingestPDF never throws.
C20_RejectionCodes ==
    ingested # NoIngest =>
        LET total == SumLengths(pdf.pages, Len(pdf.pages))
        IN /\ ingested.outcome = "returned"
           /\ (pdf.loading = "loaded" /\ total = 0) => ingested.error = "EMPTY"
           /\ (pdf.loading = "loaded" /\ total > 0 /\ total < 100 * Len(pdf.pages))
                 => ingested.error = "SCANNED_SUSPECT"
           /\ pdf.loading = "password" => ingested.error = "ENCRYPTED"
           /\ pdf.loading = "invalid" => ingested.error = "PARSE_ERROR"
           /\ ingested.error # "" =>
                 /\ ingested.success = FALSE
                 /\ ingested.raw_text = EmptyText
                 /\ ingested.pdf_hash = sha256(pdf.bytes)

----------------------------------------------------------------------------
(* Claims about creating records *)

\* The step is a createTransactionRecord call of writer 1.
CreatedOne == Len(pending'[1]) = Len(pending[1]) + 1

\* The two records are the same but for transaction_id, timestamp_local and
\* transaction_hash.
SameButIdentity(r, s) ==
    [s EXCEPT !.transaction_id = r.transaction_id,
              !.timestamp_local = r.timestamp_local,
              !.chain.transaction_hash = r.chain.transaction_hash] = r

\* C21: createTransactionRecord leaves the stored records and the next
\* sequence number as they are, so a further call with the same options and
\* no write in between returns a record with the same
\* previous_transaction_hash, input and outputs, which differs at most in
\* transaction_id, timestamp and transaction_hash.
C21_CreateLeavesLedger ==
    [][CreatedOne =>
          LET r == pending'[1][Len(pending'[1])]
          IN /\ dir' = dir
             /\ dirExists' = dirExists
             /\ getNextSequenceNumber(dirExists', dir') = getNextSequenceNumber(dirExists, dir)
             /\ \A o \in OptionDraws, t \in IdDraws :
                   r.input = BuildRecord(OptionsOf(o), <<0, 0>>, 0).input =>
                      LET again == createTransactionRecord(OptionsOf(o), <<50 + t, 60 + t>>,
                                                           dirExists', dir')
                      IN /\ again.chain.previous_transaction_hash
                              = r.chain.previous_transaction_hash
                         /\ again.input = r.input
                         /\ again.outputs = r.outputs
                         /\ SameButIdentity(r, again)
                         /\ again.transaction_id # r.transaction_id
                               => again.chain.transaction_hash # r.chain.transaction_hash]_vars

\* C21, its case: two records created one after the other on a ledger that
\* holds a record, with the same options and another id, carry the same
\* chain link.
C21_TwoCreatedAlike ==
    /\ Len(dir) = 1
    /\ Len(pending[1]) = 2
    /\ pending[1][1].input = pending[1][2].input
    /\ pending[1][1].transaction_id # pending[1][2].transaction_id
    /\ pending[1][1].chain.previous_transaction_hash = dir[1].record.chain.transaction_hash
    /\ pending[1][2].chain.previous_transaction_hash = dir[1].record.chain.transaction_hash
    /\ pending[1][1].chain.transaction_hash # pending[1][2].chain.transaction_hash

----------------------------------------------------------------------------
(* Claims about the serialization that is hashed *)

KeysReordered == Len(tampered) = 1 /\ tampered[1].field[2] = "order"

\* The directory as the writer left it.
AsWritten == [i \in 1..Len(writeLog) |-> FileOf(writeLog[i].name, writeLog[i].record)]

\* C22: the hash verifyTransactionChain recomputes depends on the values of
\* a record's fields only, not on the order its keys are stored in: after a
\* stored record was rewritten with equal values and its keys in another
\* order, at top level or inside input, outputs or environment, the
\* verification outcome is that of the directory as written.
C22_KeyOrderIrrelevant ==
    (verification.outcome # "none" /\ KeysReordered)
        => verification = verifyTransactionChain(TRUE, AsWritten)

----------------------------------------------------------------------------
(* Claims about one writer *)

\* C23: with one writer that writes the records it created with
\* createTransactionRecord once each, in creation order, every call of
\* verifyTransactionChain returns valid = true, also when several records
\* were created before any was written and when created records are never
\* written.
C23_SingleWriterValid ==
    verification.outcome # "none"
        => (verification.outcome = "returned" /\ verification.valid)

----------------------------------------------------------------------------
(* Claims about the spans of matches *)

\* C24: every match of detect has 0 <= char_start < char_end <= length of
\* the text, its matched_text is the text between char_start and char_end,
\* and two matches with the same pattern_id have disjoint spans.
C24_SpansWellFormed ==
    detected.outcome = "returned" =>
        LET ms == detected.detection.matches
        IN /\ \A i \in 1..Len(ms) :
                /\ 0 <= ms[i].char_start
                /\ ms[i].char_start < ms[i].char_end
                /\ ms[i].char_end <= Len(text)
                /\ ms[i].matched_text = SubSeq(text, ms[i].char_start + 1, ms[i].char_end)
           /\ \A i, j \in 1..Len(ms) :
                (i # j /\ ms[i].pattern_id = ms[j].pattern_id)
                    => \/ ms[i].char_end <= ms[j].char_start
                       \/ ms[j].char_end <= ms[i].char_start

\* A text in which one pattern matched twice, the second match beginning
\* where the first ends.
C24_RepeatedPattern ==
    /\ detected.outcome = "returned"
    /\ LET ms == detected.detection.matches
       IN \E i, j \in 1..Len(ms) :
             /\ i # j
             /\ ms[i].pattern_id = ms[j].pattern_id
             /\ ms[i].char_end = ms[j].char_start

----------------------------------------------------------------------------
(* Claims about where evidence comes from *)

\* C25: every evidence item of an obligation traces to a match of the input
\* list with the item's source_op_id as pattern_id and the item's span, of
\* class DEF, CAUSE or SCOPE, that is the trigger or lies within 500 of the
\* trigger's midpoint; present_fields lists the fields of the evidence items
\* in their order.
C25_EvidenceTraces ==
    obligations.outcome = "returned" =>
        \A i \in 1..Len(obligations.obligations) :
            LET o == obligations.obligations[i]
                t == TriggerPosition(matchList, i)
            IN /\ \A e \in 1..Len(o.evidence) :
                     \E k \in 1..Len(matchList) :
                        /\ matchList[k].pattern_id = o.evidence[e].source_op_id
                        /\ matchList[k].char_start = o.evidence[e].char_start
                        /\ matchList[k].char_end = o.evidence[e].char_end
                        /\ matchList[k].op_type \in {"DEF", "CAUSE", "SCOPE"}
                        /\ \/ k = t
                           \/ TwiceMidpointDistance(matchList[k], matchList[t]) <= 1000
               /\ o.present_fields = [e \in 1..Len(o.evidence) |-> o.evidence[e].field]

\* A requirement with evidence from a neighbour, listed with a scope match
\* beyond the window that gives it none.
C25_NearGivesFarDoesNot ==
    /\ obligations.outcome = "returned"
    /\ Len(matchList) = 3
    /\ matchList[1].pattern_id = "REQ_MUST_001"
    /\ matchList[2].pattern_id = "SCOPE_WITHIN_TIME_001"
    /\ matchList[3].pattern_id = "SCOPE_FOR_USERS_001"
    /\ obligations.obligations[1].present_fields = <<"who", "scope">>
    /\ \A e \in 1..Len(obligations.obligations[1].evidence) :
          obligations.obligations[1].evidence[e].source_op_id = "SCOPE_FOR_USERS_001"

----------------------------------------------------------------------------
(* Claims about which obligations can stay open *)

\* The evidence item the obligation holds for the field is the trigger's own.
FromTrigger(o, trigger, field) ==
    \E e \in 1..Len(o.evidence) :
        /\ o.evidence[e].field = field
        /\ o.evidence[e].source_op_id = trigger.pattern_id
        /\ o.evidence[e].char_start = trigger.char_start
        /\ o.evidence[e].char_end = trigger.char_end

\* C26: every SCOPE_BOUNDING and every CAUSE_SUPPORT obligation is SATISFIED
\* with no missing field, its evidence for "scope" or "why" being the
\* trigger's own; an OPEN obligation is a REQ_APPLICABILITY or a
\* DEF_CONSISTENCY whose trigger has no captured term.
C26_OnlyRequirementsAndBareDefinitionsOpen ==
    obligations.outcome = "returned" =>
        \A i \in 1..Len(obligations.obligations) :
            LET o == obligations.obligations[i]
                trigger == matchList[TriggerPosition(matchList, i)]
            IN /\ o.obl_type = "SCOPE_BOUNDING" =>
                    /\ o.status = "SATISFIED"
                    /\ o.missing_fields = <<>>
                    /\ FromTrigger(o, trigger, "scope")
               /\ o.obl_type = "CAUSE_SUPPORT" =>
                    /\ o.status = "SATISFIED"
                    /\ o.missing_fields = <<>>
                    /\ FromTrigger(o, trigger, "why")
               /\ o.status # "SATISFIED" =>
                    /\ o.status = "OPEN"
                    /\ \/ o.obl_type = "REQ_APPLICABILITY"
                       \/ /\ o.obl_type = "DEF_CONSISTENCY"
                          /\ Capture(trigger, "term") = <<>>

\* A definition without a captured term, open, between two scope matches
\* that are both satisfied, each by itself.
C26_BareDefinitionAmongScopes ==
    /\ obligations.outcome = "returned"
    /\ Len(matchList) = 3
    /\ matchList[1].pattern_id = "SCOPE_FOR_MINORS_001"
    /\ matchList[2].pattern_id = "DEF_HEREINAFTER_001"
    /\ matchList[3].pattern_id = "SCOPE_UNLESS_001"
    /\ obligations.obligations[1].status = "SATISFIED"
    /\ obligations.obligations[2].status = "OPEN"
    /\ obligations.obligations[3].status = "SATISFIED"
    /\ FromTrigger(obligations.obligations[3], matchList[3], "scope")

----------------------------------------------------------------------------
(* Claims about the fingerprint of the input *)

\* 31 * h + c wrapped to 32 bits, h given as its 16-bit halves.
ThirtyOneTimesPlus(h, c) ==
    LET low == 31 * h[2] + c
    IN <<(31 * h[1] + low \div Half) % Half, low % Half>>

RECURSIVE WrappedSum(_, _)
WrappedSum(str, k) ==
    IF k = 0 THEN <<0, 0>> ELSE ThirtyOneTimesPlus(WrappedSum(str, k - 1), str[k])

\* |h| of the signed 32-bit number with the given halves, as halves: h
\* itself, or 2^32 minus the unsigned reading when the sign bit is set.
Magnitude(h) ==
    IF h[1] < 32768 THEN h
    ELSE <<65535 - h[1] + (IF h[2] = 0 THEN 1 ELSE 0), (65536 - h[2]) % 65536>>

\* The eight lowercase hexadecimal digits of a number below 2^32.
EightDigits(n) == padStart(HexString(n[1]), 4, 48) \o padStart(HexString(n[2]), 4, 48)

LowercaseHexDigits == (48..57) \cup (97..102)

\* C27: input_hash is the lowercase hexadecimal form of |h|, padded with
\* zeros to 8 digits, where h starts at 0 and becomes 31*h + c wrapped to a
\* signed 32-bit integer for each code unit c of the text; it has exactly 8
\* hexadecimal characters, is 00000000 for the empty text, 80000000 where h
\* is -2^31, and is the same whichever detector computed it.
C27_WrappedFingerprint ==
    detected.outcome = "returned" =>
        LET inputHash == detected.detection.input_hash
        IN /\ inputHash = EightDigits(Magnitude(WrappedSum(text, Len(text))))
           /\ Len(inputHash) = 8
           /\ \A i \in 1..Len(inputHash) : inputHash[i] \in LowercaseHexDigits
           /\ text = <<>> => inputHash = <<48, 48, 48, 48, 48, 48, 48, 48>>
           /\ text = MinimumText => inputHash = <<56, 48, 48, 48, 48, 48, 48, 48>>
           /\ text = <<109, 109>> => inputHash = <<48, 48, 48, 48, 48, 100, 97, 48>>

\* The fingerprint of a text whose sum left the 32-bit range and came back
\* negative.
C27_NegativeHash ==
    /\ detected.outcome = "returned"
    /\ Len(text) = MaxHashLen
    /\ IsNegative(WrappedSum(text, Len(text)))
    /\ detected.detection.input_hash # EightDigits(WrappedSum(text, Len(text)))

----------------------------------------------------------------------------
(* Claims about the browser page *)

\* C28: the records of the reviews of one run form a linear chain: the
\* record of the first review after startNewRun links to the genesis hash,
\* and the record of each later review links to the transaction_hash of the
\* record of the review before it, also when runReview was invoked again
\* while an earlier invocation was awaiting its hashes.
C28_LinearChainPerRun ==
    \A a \in 1..Len(issued) :
        /\ issued[a].review = 1 =>
              issued[a].record.chain.previous_transaction_hash = GENESIS_HASH
        /\ \A b \in 1..Len(issued) :
              (issued[b].run = issued[a].run /\ issued[b].review + 1 = issued[a].review)
                 => issued[a].record.chain.previous_transaction_hash
                       = issued[b].record.chain.transaction_hash

\* The page holds nothing of a review or a PDF and links to the genesis hash.
Fresh ==
    /\ currentDetection = null
    /\ currentObligations = null
    /\ currentPDFResult = null
    /\ currentCanonResult = null
    /\ currentTransactionRecord = null
    /\ inputSource = "text"
    /\ lastTransactionHash = GENESIS_HASH

\* The user has supplied no input in the current run: the text area is
\* empty and no handler started in this run is pending.
NoInputYet ==
    /\ documentInput = <<>>
    /\ \A i \in 1..Len(tasks) : tasks[i].run < currentRunId

\* C29: before the first startNewRun no review and no load takes effect;
\* after each startNewRun, until the user supplies input, currentDetection,
\* currentObligations, currentPDFResult, currentCanonResult and
\* currentTransactionRecord are null, inputSource is 'text' and
\* lastTransactionHash is the genesis hash, also when a PDF load or a review
\* started in the run before completes after startNewRun.
C29_RunIsolation ==
    /\ [](currentRunId = 0 =>
             /\ Fresh
             /\ documentInput = <<>>
             /\ tasks = <<>>
             /\ issued = <<>>
             /\ bundle = null)
    /\ [][currentRunId' # currentRunId => (Fresh /\ NoInputYet)']_vars
    /\ [][(Fresh /\ NoInputYet /\ events' = events) => Fresh']_vars

\* The texts a review of the page can be about.
ReviewedTexts ==
    TypedTexts \cup {SampleText} \cup FileContents
      \cup {canonicalizeText(ingestPDFInBrowser(file).raw_text).canonical_text : file \in PagePdfs}

\* C30: in every bundle with PDF provenance pdf_hash, canonical_hash and the
\* detection come from one PDF that was ingested with success; in every
\* bundle with text provenance canonical_hash is the SHA-256 of the text the
\* bundled detection was computed from.
C30_BundleOfOneInput ==
    bundle # null =>
        IF bundle.provenance.input_format = "pdf"
        THEN \E file \in PagePdfs :
                LET result == ingestPDFInBrowser(file)
                    canon == canonicalizeText(result.raw_text)
                IN /\ result.success
                   /\ bundle.provenance.pdf_hash = result.pdf_hash
                   /\ bundle.provenance.canonical_hash = canon.canonical_hash
                   /\ bundle.data.detection = detectOperators(canon.canonical_text)
        ELSE \E value \in ReviewedTexts :
                /\ bundle.provenance.canonical_hash = sha256Hash(value)
                /\ bundle.data.detection = detectOperators(value)

====
